---- MODULE Spec2Model ----
(***************************************************************************)
(* Zero-copy DMA-BUF import for a wgpu/Vulkan renderer (bevy-dmabuf).      *)
(*                                                                         *)
(* Two import paths live in the repository; an application is built with   *)
(* one of them, and Spec covers both (the choice is `variant`):             *)
(*                                                                         *)
(*  asset path  an ExternalBuffer asset is extracted (take_gpu_data),       *)
(*              prepared (prepare_asset) and imported by                    *)
(*              import_dmabuf_as_texture, modelled call by call against a   *)
(*              Vulkan driver whose answers are nondeterministic.           *)
(*  table path  ImportedDmatexs, the per-frame import step                  *)
(*              insert_dmatex_into_gpu_images, and the Acquire / Release    *)
(*              ownership transfers of memory_barrier, step by step.        *)
(***************************************************************************)
EXTENDS Integers, Sequences, FiniteSets, TLC

\* ------------------------------------------------------------------ bounds
\* Largest plane count of a generated Dmatex (more than four planes must occur).
MaxPlanes == 5
\* Largest number of simultaneous holders of one imported texture.
MaxRefs == 2

\* ------------------------------------------------------- option values
None == << >>
Some(x) == << x >>
IsSome(o) == Len(o) = 1
Unwrap(o) == o[1]

\* ------------------------------------------------------------- formats
\* Four-character codes a producer may hand over; "Nv12" has no table entry.
FourccCodes == {"Argb8888", "Abgr2101010", "Rgba8888", "Nv12"}
Modifiers == {"LINEAR", "TILED"}

\* formats::get_vk_format: the fourcc -> Vulkan format table (None: unknown code).
get_vk_format(code) ==
    CASE code = "Argb8888" -> Some("B8G8R8A8_UNORM")
      [] code = "Abgr8888" -> Some("R8G8B8A8_UNORM")
      [] code = "Rgba8888" -> Some("A8B8G8R8_UNORM_PACK32")
      [] code = "Argb2101010" -> Some("A2R10G10B10_UNORM_PACK32")
      [] code = "Abgr2101010" -> Some("A2B10G10R10_UNORM_PACK32")
      [] OTHER -> None

\* formats::to_srgb: the sRGB sibling of a format, if it has one.
to_srgb(f) ==
    CASE f = "B8G8R8A8_UNORM" -> Some("B8G8R8A8_SRGB")
      [] f = "R8G8B8A8_UNORM" -> Some("R8G8B8A8_SRGB")
      [] f = "A8B8G8R8_UNORM_PACK32" -> Some("A8B8G8R8_SRGB_PACK32")
      [] OTHER -> None

\* format_mapping::vulkan_to_wgpu, restricted to the formats reachable here.
vulkan_to_wgpu(f) ==
    CASE f = "R8G8B8A8_UNORM" -> Some("Rgba8Unorm")
      [] f = "R8G8B8A8_SRGB" -> Some("Rgba8UnormSrgb")
      [] f = "B8G8R8A8_SRGB" -> Some("Bgra8UnormSrgb")
      [] f = "B8G8R8A8_UNORM" -> Some("Bgra8Unorm")
      [] f = "A2B10G10R10_UNORM_PACK32" -> Some("Rgb10a2Unorm")
      [] OTHER -> None

\* Mutant of choose_vk_format: an unknown code falls back to B8G8R8A8_UNORM.
choose_vk_format_falls_back(dma) ==
    LET base == get_vk_format(dma.code)
        b == IF IsSome(base) THEN Unwrap(base) ELSE "B8G8R8A8_UNORM"
        s == to_srgb(b)
    IN  [ok |-> TRUE, err |-> "none",
         fmt |-> IF dma.srgb /\ IsSome(s) THEN Unwrap(s) ELSE b]

\* Mutant of choose_vk_format: a missing sRGB sibling is reported as an error.
choose_vk_format_srgb_required(dma) ==
    LET base == get_vk_format(dma.code)
    IN  IF ~IsSome(base) THEN [ok |-> FALSE, err |-> "VulkanIncompatibleFormat", fmt |-> "none"]
        ELSE LET s == to_srgb(Unwrap(base))
             IN  IF dma.srgb /\ ~IsSome(s)
                 THEN [ok |-> FALSE, err |-> "VulkanIncompatibleFormat", fmt |-> "none"]
                 ELSE [ok |-> TRUE, err |-> "none",
                       fmt |-> IF dma.srgb THEN Unwrap(s) ELSE Unwrap(base)]

\* choose_vk_format: base format, replaced by its sRGB sibling when asked for
\* and present; Err(VulkanIncompatibleFormat) for an unknown code.
choose_vk_format(dma) ==
    LET base == get_vk_format(dma.code)
    IN  IF ~IsSome(base) THEN [ok |-> FALSE, err |-> "VulkanIncompatibleFormat", fmt |-> "none"]
        ELSE LET s == to_srgb(Unwrap(base))
             IN  [ok |-> TRUE, err |-> "none",
                  fmt |-> IF dma.srgb /\ IsSome(s) THEN Unwrap(s) ELSE Unwrap(base)]

\* Mutant of needs_disjoint: any plane at all asks for disjoint binding.
needs_disjoint_any_plane(dma) == dma.nplanes > 0

\* needs_disjoint: more than one plane.
needs_disjoint(dma) == dma.nplanes > 1

\* ------------------------------------------------------------- devices
VkFormats ==
    {"B8G8R8A8_UNORM", "B8G8R8A8_SRGB", "A8B8G8R8_UNORM_PACK32",
     "A8B8G8R8_SRGB_PACK32", "A2B10G10R10_UNORM_PACK32"}

\* What get_physical_device_format_properties2 may report: (format, modifier) pairs.
ModifierTables ==
    { {},
      {<<f, "LINEAR">> : f \in VkFormats},
      {<<f, "LINEAR">> : f \in VkFormats \ {"A2B10G10R10_UNORM_PACK32"}}
         \cup {<<"B8G8R8A8_UNORM", "TILED">>, <<"B8G8R8A8_SRGB", "TILED">>} }

\* What get_physical_device_memory_properties may report: property flags per type.
MemTypeTables ==
    { << {"DEVICE_LOCAL"} >>,
      << {"HOST_VISIBLE"}, {"DEVICE_LOCAL"} >>,
      << {"PROTECTED", "DEVICE_LOCAL"}, {"HOST_VISIBLE"} >>,
      << {"LAZILY_ALLOCATED"}, {"PROTECTED"} >> }

\* memory_type_bits a driver may report for an image or plane.
TypeBits == 0 .. 3

\* The render devices: one that is not a Vulkan device, and Vulkan devices with
\* each modifier table over plain device-local memory and each memory-type
\* table under the modifier table that lists both modifiers.
Devices ==
    { [vulkan |-> FALSE, mods |-> {}, disjoint |-> {}, memTypes |-> << {"DEVICE_LOCAL"} >>] }
    \cup { d \in [vulkan : {TRUE}, mods : ModifierTables, disjoint : {{"TILED"}},
                  memTypes : MemTypeTables] :
             \/ d.memTypes = << {"DEVICE_LOCAL"} >>
             \/ <<"B8G8R8A8_UNORM", "TILED">> \in d.mods }

\* get_supported_modifiers_for_format: the modifiers the device lists for a format.
get_supported_modifiers_for_format(dev, fmt) ==
    {p[2] : p \in {q \in dev.mods : q[1] = fmt}}

\* Mutant of ensure_modifier_supported: an empty list restricts nothing.
ensure_modifier_supported_if_any(dev, fmt, modifier) ==
    \/ get_supported_modifiers_for_format(dev, fmt) = {}
    \/ modifier \in get_supported_modifiers_for_format(dev, fmt)

\* ensure_modifier_supported: the modifier must be in the device's list.
ensure_modifier_supported(dev, fmt, modifier) ==
    modifier \in get_supported_modifiers_for_format(dev, fmt)

RECURSIVE Pow2(_)
Pow2(n) == IF n = 0 THEN 1 ELSE 2 * Pow2(n - 1)

\* (memory_type_bits & (1 << i)) != 0
BitSet(bits, i) == (bits \div Pow2(i)) % 2 = 1

\* Mutant of ForbiddenFlags: lazily allocated memory is let through.
ForbiddenFlagsProtectedOnly == {"PROTECTED"}

ForbiddenFlags == {"PROTECTED", "LAZILY_ALLOCATED"}

\* The for loop of select_memory_type_index from index i on (indices are
\* 0-based as in the code): skip a type whose bit is clear, skip a type with a
\* forbidden flag, return the first type left.
RECURSIVE select_memory_type_index_from(_, _, _)
select_memory_type_index_from(i, bits, memTypes) ==
    IF i >= Len(memTypes) THEN None
    ELSE IF ~BitSet(bits, i) THEN select_memory_type_index_from(i + 1, bits, memTypes)
    ELSE IF memTypes[i + 1] \cap ForbiddenFlags # {}
    THEN select_memory_type_index_from(i + 1, bits, memTypes)
    ELSE Some(i)

\* select_memory_type_index(memory_type_bits, mem_props).
select_memory_type_index(bits, memTypes) ==
    select_memory_type_index_from(0, bits, memTypes)

\* memory_plane_aspect: planes 0..3 have a memory-plane aspect, others do not.
MaxAspectIndex == 3

\* Mutant of memory_plane_aspect: every index has a memory-plane aspect.
memory_plane_aspect_unbounded(i) == Some(i)

memory_plane_aspect(i) ==
    IF i <= MaxAspectIndex THEN Some(i) ELSE None

\* ----------------------------------------------------------- descriptors
\* Resolution: width x and height y in pixels.
Resolution(x, y) == [x |-> x, y |-> y]
Resolutions == {Resolution(64, 64), Resolution(32, 16)}

\* The usage tag of an imported buffer.
ExternalImageUsages == {"Sampling", "RenderTarget"}

\* DmatexPlane::stride is an i32: the row stride of a top-down buffer, and
\* the negative one of a buffer stored bottom-up.
Strides == {256, -256}

\* DmatexPlane::offset is a u32: plane p (1-based) starts PlaneSize bytes
\* after plane p - 1.
PlaneSize == 16384

\* A Dmatex: its planes (one fd each, all with the same stride), resolution,
\* format code and modifier, and sRGB flag.  Every shape comes at 64x64 with a
\* positive stride; the one-plane linear Argb8888 descriptors also come at a
\* resolution that is not square, and the linear Argb8888 descriptors that are
\* not sRGB also come bottom-up.
Dmatexs ==
    {d \in [code : FourccCodes, srgb : BOOLEAN, modifier : Modifiers,
            nplanes : 0 .. MaxPlanes, res : Resolutions, stride : Strides] :
        /\ d.res # Resolution(64, 64) =>
              (d.code = "Argb8888" /\ d.modifier = "LINEAR" /\ d.nplanes = 1
               /\ d.stride > 0)
        /\ d.stride < 0 =>
              (d.code = "Argb8888" /\ d.modifier = "LINEAR" /\ ~d.srgb
               /\ d.nplanes \in {1, 2})}

\* dma.planes: the offset and stride of each plane, in plane order.
planes(d) == [p \in 1 .. d.nplanes |-> [offset |-> (p - 1) * PlaneSize, stride |-> d.stride]]

\* A vk::DeviceSize is a u64, held as four 16-bit limbs, lowest first.
Limb == 65536

\* `as vk::DeviceSize` of a u32: the value, zero-extended.
u32_as_DeviceSize(n) == <<n % Limb, (n \div Limb) % Limb, 0, 0>>

\* `as vk::DeviceSize` of an i32: the value sign-extended to 64 bits and read
\* as unsigned, that is n modulo 2^64.
i32_as_DeviceSize(n) ==
    LET ext == IF n < 0 THEN Limb - 1 ELSE 0
    IN  <<n % Limb, (n \div Limb) % Limb, ext, ext>>

\* plane_layouts: one vk::SubresourceLayout per plane, in plane order.
plane_layouts(d) ==
    [p \in 1 .. d.nplanes |->
        [offset |-> u32_as_DeviceSize(planes(d)[p].offset),
         row_pitch |-> i32_as_DeviceSize(planes(d)[p].stride),
         array_pitch |-> 0, depth_pitch |-> 0, size |-> 0]]

\* What ExternalBufferLoader::load is called with: every descriptor for
\* sampling, the one-plane linear Argb8888 ones as render targets too.
LoadInputs ==
    {inp \in [dma : Dmatexs, usage : ExternalImageUsages] :
        inp.usage = "RenderTarget" =>
            (inp.dma.code = "Argb8888" /\ inp.dma.modifier = "LINEAR"
             /\ inp.dma.nplanes = 1)}

\* Extent3d of a two-dimensional texture: one array layer.
Extent3d(res) == [width |-> res.x, height |-> res.y, depth_or_array_layers |-> 1]

\* hal_texture_desc: the descriptor texture_from_raw is given.
hal_texture_desc(dma, format, tag) ==
    [size |-> Extent3d(dma.res), mip_level_count |-> 1, sample_count |-> 1,
     dimension |-> "D2", format |-> format,
     usage |-> IF tag = "Sampling" THEN {"RESOURCE", "COPY_SRC"}
               ELSE {"COLOR_TARGET", "COPY_DST"}]

\* Mutant of wgpu_texture_desc: every texture is described as a sampled one.
wgpu_texture_desc_always_sampled(dma, format, tag) ==
    [size |-> Extent3d(dma.res), mip_level_count |-> 1, sample_count |-> 1,
     dimension |-> "D2", format |-> format,
     usage |-> {"TEXTURE_BINDING", "COPY_SRC"}]

\* wgpu_texture_desc: the descriptor create_texture_from_hal is given, which
\* is what the texture reports as its size, format and usage.
wgpu_texture_desc(dma, format, tag) ==
    [size |-> Extent3d(dma.res), mip_level_count |-> 1, sample_count |-> 1,
     dimension |-> "D2", format |-> format,
     usage |-> IF tag = "Sampling" THEN {"TEXTURE_BINDING", "COPY_SRC"}
               ELSE {"RENDER_ATTACHMENT", "COPY_DST"}]


\* ------------------------------------------------------------ table path
\* View handles ManualTextureViewHandles::reserve_handle hands out in one run.
MaxHandles == 2
ViewHandles == 0 .. MaxHandles - 1

\* Asset ids Assets<Image>::add hands out in one run.
MaxIds == 2
Ids == 1 .. MaxIds

\* Format codes handed to ImportedDmatexs::set; "Unrecognized" is no DrmFourcc.
\* The Argb8888 buffers have one plane (linear) or two (tiled, and also linear,
\* a modifier the devices do not report as DISJOINT); the buffers of the other
\* codes, which no import accepts, are linear with one plane.
TableCodes == {"Argb8888", "Argb2101010", "Nv12", "Unrecognized"}
TablePlaneCounts == {1, 2}
TableDmatexs ==
    {b \in [code : TableCodes, srgb : {FALSE}, modifier : Modifiers,
            nplanes : TablePlaneCounts] :
        /\ b.modifier = "TILED" => b.nplanes = 2
        /\ b.code # "Argb8888" => (b.modifier = "LINEAR" /\ b.nplanes = 1)}

\* The render devices the table path is run against: the one that is not a
\* Vulkan device, and the Vulkan device that lists both modifiers and whose
\* first memory type is protected device-local memory.
TableDevices ==
    {d \in Devices :
        ~d.vulkan \/ (/\ <<"B8G8R8A8_UNORM", "TILED">> \in d.mods
                      /\ d.memTypes = << {"PROTECTED", "DEVICE_LOCAL"}, {"HOST_VISIBLE"} >>)}

\* format_mapping::drm_fourcc_to_vk_format, restricted to the codes used here.
drm_fourcc_to_vk_format(code) ==
    CASE code = "Argb8888" -> Some("B8G8R8A8_UNORM")
      [] code = "Abgr8888" -> Some("R8G8B8A8_UNORM")
      [] code = "Rgba8888" -> Some("R8G8B8A8_UNORM")
      [] code = "Argb2101010" -> Some("A2R10G10B10_UNORM_PACK32")
      [] code = "Abgr2101010" -> Some("A2B10G10R10_UNORM_PACK32")
      [] OTHER -> None

\* format_mapping::vk_format_to_srgb.
vk_format_to_srgb(f) ==
    CASE f = "R8G8B8A8_UNORM" -> Some("R8G8B8A8_SRGB")
      [] f = "B8G8R8A8_UNORM" -> Some("B8G8R8A8_SRGB")
      [] f = "A8B8G8R8_UNORM_PACK32" -> Some("A8B8G8R8_SRGB_PACK32")
      [] OTHER -> None

\* import::get_imported_descriptor: the Vulkan format of the descriptor and the
\* error that stops the conversion, if any.
get_imported_descriptor(buf) ==
    LET base == drm_fourcc_to_vk_format(buf.code)
        srgb == IF IsSome(base) THEN vk_format_to_srgb(Unwrap(base)) ELSE None
        fmt == IF ~IsSome(base) THEN "none"
               ELSE IF buf.srgb /\ IsSome(srgb) THEN Unwrap(srgb)
               ELSE Unwrap(base)
    IN  IF buf.code = "Unrecognized" THEN [err |-> "UnrecognizedFourcc", vk |-> "none"]
        ELSE IF ~IsSome(base) THEN [err |-> "VulkanIncompatibleFormat", vk |-> "none"]
        ELSE IF ~IsSome(vulkan_to_wgpu(fmt)) THEN [err |-> "WgpuIncompatibleFormat", vk |-> fmt]
        ELSE [err |-> "none", vk |-> fmt]

\* Bit position of a vk::MemoryPropertyFlags flag.
PropertyFlagBit(flag) ==
    CASE flag = "DEVICE_LOCAL" -> 0
      [] flag = "HOST_VISIBLE" -> 1
      [] flag = "HOST_COHERENT" -> 2
      [] flag = "HOST_CACHED" -> 3
      [] flag = "LAZILY_ALLOCATED" -> 4
      [] flag = "PROTECTED" -> 5
      [] flag = "DEVICE_COHERENT_AMD" -> 6
      [] flag = "DEVICE_UNCACHED_AMD" -> 7
      [] flag = "RDMA_CAPABLE_NV" -> 8

\* import_texture's valid_memory_types: u32::MAX with bit i cleared for every
\* memory type i that carries one of four flags (the set bits, as a set).
valid_memory_types(memTypes) ==
    {b \in 0 .. 31 :
        ~(b < Len(memTypes)
          /\ memTypes[b + 1] \cap {"RDMA_CAPABLE_NV", "DEVICE_COHERENT_AMD",
                                   "PROTECTED", "LAZILY_ALLOCATED"} # {})}

\* import_texture's memory_type_idx: the first type whose property flags
\* intersect from_raw(valid_memory_types); None if there is none.
memory_type_idx(memTypes) ==
    LET valid == valid_memory_types(memTypes)
        hits == {i \in 0 .. Len(memTypes) - 1 :
                   \E f \in memTypes[i + 1] : PropertyFlagBit(f) \in valid}
    IN  IF hits = {} THEN None
        ELSE Some(CHOOSE i \in hits : \A j \in hits : i <= j)

\* The first driver call of one import_texture call that fails, if any.
DriverFaults ==
    { [call |-> c, at |-> 0] :
        c \in {"none", "get_drm_image_modifier_info", "create_image", "bind_image_memory2"} }
    \cup { [call |-> "allocate_memory", at |-> k] : k \in TablePlaneCounts \ {0} }

\* What one import_texture call leaves behind.
ImportResult(res, img, mems) == [res |-> res, image |-> img, mems |-> mems]

\* import::hal::import_texture(render_device, buf, ..): the result, the state of
\* the native image it created and the number of plane memories left allocated.
import_texture(buf, dev, fault) ==
    LET desc == get_imported_descriptor(buf)
        disjoint == buf.nplanes >= 1 /\ buf.modifier \in dev.disjoint
        wanted == IF disjoint THEN buf.nplanes ELSE 1
        reach == IF wanted > MaxAspectIndex + 1 THEN MaxAspectIndex + 1 ELSE wanted
        allocFails == fault.call = "allocate_memory" /\ fault.at <= reach
    IN  IF buf.nplanes = 0 THEN ImportResult("NoPlanes", "none", 0)
        ELSE IF desc.err # "none" THEN ImportResult(desc.err, "none", 0)
        ELSE IF ~dev.vulkan THEN ImportResult("NotVulkan", "none", 0)
        ELSE IF <<desc.vk, buf.modifier>> \notin dev.mods
        THEN ImportResult("ModifierInvalid", "none", 0)
        ELSE IF fault.call = "get_drm_image_modifier_info"
        THEN ImportResult("ModifierInvalid", "none", 0)
        ELSE IF fault.call = "create_image"
        THEN ImportResult("VulkanImageCreationFailed", "none", 0)
        ELSE IF ~IsSome(memory_type_idx(dev.memTypes))
        THEN ImportResult("NoValidMemoryTypes", "alive", 0)
        ELSE IF allocFails
        THEN ImportResult("VulkanMemoryAllocFailed", "destroyed", fault.at - 1)
        ELSE IF wanted > reach
        THEN ImportResult("IncorrectNumberOfPlanes", "alive", reach)
        ELSE IF fault.call = "bind_image_memory2"
        THEN ImportResult("VulkanImageMemoryBindFailed", "alive", wanted)
        ELSE IF ~IsSome(vulkan_to_wgpu(desc.vk))
        THEN ImportResult("WgpuIncompatibleFormat", "alive", wanted)
        ELSE ImportResult("Ok", "alive", wanted)

\* DmaImage and the empty slot of the table.
AbsentEntry == [st |-> "Absent", buf |-> None]
UnImported(buf) == [st |-> "UnImported", buf |-> Some(buf)]
Imported == [st |-> "Imported", buf |-> None]

\* ImageQueueTransfer.
Directions == {"Acquire", "Release"}
NothingSubmitted == [d \in Directions |-> None]

\* memory_barrier before it is called: no pool, no semaphore, no command buffer.
IdleBarrier ==
    [pc |-> "idle", pool |-> "none", semaphore |-> "none", poolDestroys |-> 0,
     semDestroys |-> 0, cmd |-> "none", semValue |-> 0, barriers |-> << >>,
     locked |-> FALSE, tableAtLock |-> None, failed |-> "none", log |-> << >>,
     wait |-> "none"]

\* --------------------------------------------------------- TextureSampling
\* The main-world side of a sampling buffer: whether the user still holds the
\* Handle<Image> that load returned, what the handle's id resolves to in
\* Assets<Image>, and whether ExternalBufferImageTable maps it to the buffer.
NoSampling == [handle |-> FALSE, image |-> "none", entry |-> FALSE, reported |-> FALSE]

\* TextureSampling::init: a reserved image handle and its table entry.
init == [handle |-> TRUE, image |-> "reserved", entry |-> TRUE, reported |-> FALSE]

\* Mutant of on_buffer_import_failed: the table entry is left in place.
on_buffer_import_failed_keeps_entry(s, insertOk) ==
    [s EXCEPT !.image = IF insertOk THEN "fallback" ELSE @]

\* TextureSampling::on_buffer_import_failed: Image::default() is inserted
\* under the image id (a failed insert is only logged), then the table entry
\* is removed.
on_buffer_import_failed(s, insertOk) ==
    [s EXCEPT !.image = IF insertOk THEN "fallback" ELSE @, !.entry = FALSE]

\* ------------------------------------------------------------------ state
VARIABLES
    device,        \* the render device: backend, modifier table, memory types
    variant,       \* which prepare_asset is built in: "events" or "gpu_images"
    assetLive,     \* the ExternalBuffer asset is in the main world's Assets
    creation_data, \* ExternalBuffer::creation_data of the main-world asset
    extracted,     \* the SourceAsset take_gpu_data handed over, not yet prepared
    lastExtract,   \* what the last take_gpu_data returned
    handed,        \* how often take_gpu_data has handed the creation data over
    gpuAsset,      \* the render world's GpuExternalBuffer for the asset
    prepareRet,    \* what prepare_asset returned
    notes,         \* notifications triggered by prepare_asset, in order
    sampling,      \* TextureSampling: the user's image handle, its Image, the table entry
    importCalls,   \* calls of import_dmabuf_as_texture for the asset
    pc,            \* where the render thread is inside the import call
    dma,           \* the Dmatex owned by the running import call
    vk_format,     \* the negotiated Vulkan format
    wgpu_format,   \* its renderer equivalent
    wgpu_desc,     \* the wgpu::TextureDescriptor of the texture
    hal_tex_desc,  \* the wgpu::hal::TextureDescriptor of the texture
    image,         \* the native image: "none", "alive" or "destroyed"
    binds,         \* the PlaneBinds: imported plane memories, in import order
    fd,            \* per plane, who owns its file descriptor
    allocCalls,    \* per plane, allocate_memory calls its fd was passed to
    planeIdx,      \* planes taken from dma.planes.into_iter() so far
    req,           \* the PlaneReq query_image_requirements returned for the next plane
    result,        \* what the import call returned
    guard,         \* the release routine: "none", "registered" or "ran"
    guardRuns,     \* how often the release routine has run
    refs,          \* live holders of the texture (handle clones)
    calls,         \* the Vulkan calls made for this descriptor, in order
    badFree,       \* a free or destroy hit an object that was not alive
    usage,         \* the usage tag of the asset
    table,         \* ImportedDmatexs: per asset id, its DmaImage entry
    images,        \* ids whose Image asset is alive in the main world
    gpu_images,    \* RenderAssets<GpuImage>: "none", "dummy" or "imported" per id
    nextId,        \* the next asset id Assets<Image>::add hands out
    stage,         \* the render schedule's position within the frame
    frameLog,      \* the steps of this frame that have started, in order
    imported,      \* ids import_texture returned Ok for in this frame
    submitted,     \* per direction, the images whose barrier was submitted this frame
    acquired,      \* the images whose last submitted barrier was an Acquire
    loop,          \* the running insert_dmatex_into_gpu_images loop, if any
    attemptOrder,  \* the ids import_texture was called for in that loop, in order
    outcome,       \* per id, what import_texture returned for it in that loop
    importCount,   \* per id, calls of import_texture
    on_drop,       \* per id, who owns the DropCallback given to set
    dropRuns,      \* per id, how often its callback has been called
    dropTrace,     \* what the last drop of an entry in the running loop did, in order
    mb,            \* the running memory_barrier call and its Vulkan objects
    next_id,       \* ManualTextureViewHandles::next_id
    buffers,       \* per view handle, the import of its render-target buffer
    entities,      \* per view handle, the entity made from its bundle
    render_target, \* per view handle, the RenderTarget component of that entity
    pending,       \* PendingExternalRenderTargets: the handles with a view waiting
    texture_views, \* ManualTextureViews of the main world: the handles inserted
    cache,         \* the Local cache of sync_render_targets
    syncing,       \* sync_render_targets is between its two loops
    delivered      \* per view handle, inserts into ManualTextureViews

assetVars == <<assetLive, creation_data, extracted, lastExtract, handed, gpuAsset,
               prepareRet, notes, sampling, importCalls>>
callVars == <<pc, dma, vk_format, wgpu_format, wgpu_desc, hal_tex_desc, planeIdx, req,
              result>>
resVars == <<image, binds, fd, allocCalls, guard, guardRuns, refs, calls, badFree>>
envVars == <<device, variant, usage>>
mainVars == <<table, images, gpu_images, nextId>>
frameVars == <<stage, frameLog, imported, submitted, acquired>>
loopVars == <<loop, attemptOrder, outcome>>
dropVars == <<on_drop, dropRuns, dropTrace>>
importVars == <<importCount, dropVars>>
tableVars == <<mainVars, frameVars, loopVars, importVars, mb>>
assetSide == <<assetVars, callVars, resVars, envVars>>
targetVars == <<next_id, buffers, entities, render_target, pending, texture_views, cache,
                syncing, delivered>>

Call(op, arg) == [op |-> op, arg |-> arg]

\* Dropping a Dmatex (or the rest of its plane iterator) closes every OwnedFd
\* it still holds.
CloseOwned(f) == [p \in DOMAIN f |-> IF f[p] = "owned" THEN "closed" ELSE f[p]]

\* Mutant of drop_callback: frees only the first plane's memory.
drop_callback_first_plane_only(bs, img) ==
    [binds |-> [k \in DOMAIN bs |-> IF k = 1 THEN [bs[k] EXCEPT !.mem = "freed"] ELSE bs[k]],
     image |-> "destroyed",
     calls |-> [k \in DOMAIN bs \cap {1} |-> Call("free_memory", bs[k].plane)]
                 \o << Call("destroy_image", 0) >>,
     bad |-> (\E k \in DOMAIN bs \cap {1} : bs[k].mem # "alive") \/ img # "alive"]

\* The release closure handed to texture_from_raw: free every plane memory,
\* then destroy the image.
drop_callback(bs, img) ==
    [binds |-> [k \in DOMAIN bs |-> [bs[k] EXCEPT !.mem = "freed"]],
     image |-> "destroyed",
     calls |-> [k \in DOMAIN bs |-> Call("free_memory", bs[k].plane)]
                 \o << Call("destroy_image", 0) >>,
     bad |-> (\E k \in DOMAIN bs : bs[k].mem # "alive") \/ img # "alive"]

\* wgpu runs the drop guard of a hal texture when its last holder goes away.
GuardDue(newRefs) == newRefs = 0 /\ guard = "registered"

\* One holder of the texture goes away; the release routine runs if it was the last.
ReleaseRef ==
    /\ refs' = refs - 1
    /\ IF GuardDue(refs - 1)
       THEN LET d == drop_callback(binds, image)
            IN  /\ binds' = d.binds
                /\ image' = d.image
                /\ calls' = calls \o d.calls
                /\ badFree' = (badFree \/ d.bad)
                /\ guard' = "ran"
                /\ guardRuns' = guardRuns + 1
       ELSE UNCHANGED <<binds, image, calls, badFree, guard, guardRuns>>

Init ==
    /\ device \in Devices
    /\ variant \in {"events", "gpu_images", "table", "render_target"}
    /\ variant \in {"table", "render_target"} => device \in TableDevices
    /\ assetLive = FALSE
    /\ creation_data = None
    /\ extracted = None
    /\ lastExtract = "none"
    /\ handed = 0
    /\ gpuAsset = "None"
    /\ prepareRet = "none"
    /\ notes = << >>
    /\ sampling = NoSampling
    /\ importCalls = 0
    /\ pc = "idle"
    /\ dma = None
    /\ vk_format = "none"
    /\ wgpu_format = "none"
    /\ wgpu_desc = None
    /\ hal_tex_desc = None
    /\ image = "none"
    /\ binds = << >>
    /\ fd = << >>
    /\ allocCalls = << >>
    /\ planeIdx = 0
    /\ req = None
    /\ result = "none"
    /\ guard = "none"
    /\ guardRuns = 0
    /\ refs = 0
    /\ calls = << >>
    /\ badFree = FALSE
    /\ usage = "Sampling"
    /\ table = [i \in Ids |-> AbsentEntry]
    /\ images = {}
    /\ gpu_images = [i \in Ids |-> "none"]
    /\ nextId = 1
    /\ stage = "extract"
    /\ frameLog = << >>
    /\ imported = {}
    /\ submitted = NothingSubmitted
    /\ acquired = {}
    /\ loop = None
    /\ attemptOrder = << >>
    /\ outcome = [i \in Ids |-> "none"]
    /\ importCount = [i \in Ids |-> 0]
    /\ on_drop = [i \in Ids |-> "none"]
    /\ dropRuns = [i \in Ids |-> 0]
    /\ dropTrace = << >>
    /\ mb = IdleBarrier
    /\ next_id = 0
    /\ buffers = [h \in ViewHandles |-> "none"]
    /\ entities = [h \in ViewHandles |-> "none"]
    /\ render_target = [h \in ViewHandles |-> "None"]
    /\ pending = {}
    /\ texture_views = {}
    /\ cache = << >>
    /\ syncing = FALSE
    /\ delivered = [h \in ViewHandles |-> 0]

\* prepare_asset has reported a failed import that the main world has not
\* been told of yet.
FailurePending ==
    /\ variant = "events"
    /\ \E k \in DOMAIN notes : notes[k] = "ExternalBufferImportFailed"
    /\ ~sampling.reported

\* ExternalBufferLoader::load: a fresh asset with its creation data.  The model
\* follows one asset at a time; the previous one must be gone, and what it
\* reported delivered.
Load ==
    /\ UNCHANGED <<tableVars, targetVars>>
    /\ variant \in {"events", "gpu_images"}
    /\ ~assetLive /\ pc = "idle" /\ refs = 0 /\ extracted = None
    /\ ~FailurePending
    /\ \E inp \in LoadInputs :
         /\ creation_data' = Some(inp.dma)
         /\ usage' = inp.usage
         /\ fd' = [p \in 1 .. inp.dma.nplanes |-> "owned"]
         /\ allocCalls' = [p \in 1 .. inp.dma.nplanes |-> 0]
    /\ assetLive' = TRUE
    /\ lastExtract' = "none"
    /\ handed' = 0
    /\ gpuAsset' = "None"
    /\ prepareRet' = "none"
    /\ notes' = << >>
    /\ sampling' = IF variant = "events" THEN init ELSE NoSampling
    /\ importCalls' = 0
    /\ image' = "none"
    /\ binds' = << >>
    /\ guard' = "none"
    /\ guardRuns' = 0
    /\ calls' = << >>
    /\ badFree' = FALSE
    /\ result' = "none"
    /\ vk_format' = "none"
    /\ wgpu_format' = "none"
    /\ wgpu_desc' = None
    /\ hal_tex_desc' = None
    /\ planeIdx' = 0
    /\ req' = None
    /\ UNCHANGED <<extracted, pc, dma, refs, device, variant>>

\* take_gpu_data(source, previous_gpu_asset).
take_gpu_data_keeps_data(source, previous) ==
    IF ~IsSome(source)
    THEN [ret |-> "AlreadyExtracted", source |-> None, out |-> None]
    ELSE [ret |-> "Ok", source |-> source, out |-> Some([creation_data |-> source])]

\* Mutant of take_gpu_data: the previous GPU asset is not looked at.
take_gpu_data_ignores_previous(source, previous) ==
    IF ~IsSome(source)
    THEN [ret |-> "AlreadyExtracted", source |-> None, out |-> None]
    ELSE [ret |-> "Ok", source |-> None, out |-> Some([creation_data |-> source])]

take_gpu_data(source, previous) ==
    IF previous # "None"
    THEN [ret |-> "AlreadyExtracted", source |-> source, out |-> None]
    ELSE IF ~IsSome(source)
         THEN [ret |-> "AlreadyExtracted", source |-> None, out |-> None]
         ELSE [ret |-> "Ok", source |-> None, out |-> Some([creation_data |-> source])]

\* Asset extraction (on an Added or Modified event of the asset).
Extract ==
    /\ UNCHANGED <<tableVars, targetVars>>
    /\ assetLive /\ pc = "idle" /\ extracted = None
    /\ LET r == take_gpu_data(creation_data, gpuAsset)
       IN  /\ lastExtract' = r.ret
           /\ handed' = IF IsSome(r.out) THEN handed + 1 ELSE handed
           /\ creation_data' = r.source
           /\ extracted' = r.out
    /\ UNCHANGED <<assetLive, gpuAsset, prepareRet, notes, sampling, importCalls>>
    /\ UNCHANGED <<callVars, resVars, envVars>>


\* ------------------------------------------- import_dmabuf_as_texture
\* An early return with an error: the Dmatex still owned by the call is dropped.
Fail(err) ==
    /\ result' = err
    /\ pc' = "returned"
    /\ dma' = None

\* prepare_asset, up to its call of import_dmabuf_as_texture: unwrap the
\* creation data (a panic if there is none) and pass the Dmatex by value.
prepare_asset_begin ==
    /\ UNCHANGED <<tableVars, targetVars>>
    /\ pc = "idle" /\ IsSome(extracted)
    /\ LET cd == Unwrap(extracted).creation_data
       IN  IF IsSome(cd)
           THEN /\ dma' = cd
                /\ pc' = "as_hal"
                /\ importCalls' = importCalls + 1
           ELSE /\ pc' = "panicked"
                /\ UNCHANGED <<dma, importCalls>>
    /\ extracted' = None
    /\ UNCHANGED <<assetLive, creation_data, lastExtract, handed, gpuAsset, prepareRet, notes,
                 sampling>>
    /\ UNCHANGED <<vk_format, wgpu_format, wgpu_desc, hal_tex_desc, planeIdx, req,
                   result, resVars, envVars>>

\* device.as_hal::<Vulkan>().ok_or(NotVulkan)?
StepAsHal ==
    /\ UNCHANGED <<tableVars, targetVars>>
    /\ pc = "as_hal"
    /\ IF device.vulkan
       THEN pc' = "choose_vk_format" /\ UNCHANGED <<dma, result, fd>>
       ELSE Fail("NotVulkan") /\ fd' = CloseOwned(fd)
    /\ UNCHANGED <<vk_format, wgpu_format, wgpu_desc, hal_tex_desc, planeIdx, req,
                   assetVars, envVars>>
    /\ UNCHANGED <<image, binds, allocCalls, guard, guardRuns, refs, calls, badFree>>

\* let vk_format = choose_vk_format(&dma)?
StepChooseFormat ==
    /\ UNCHANGED <<tableVars, targetVars>>
    /\ pc = "choose_vk_format"
    /\ LET r == choose_vk_format(Unwrap(dma))
       IN  IF r.ok
           THEN /\ vk_format' = r.fmt
                /\ pc' = "vulkan_to_wgpu"
                /\ UNCHANGED <<dma, result, fd>>
           ELSE /\ Fail(r.err)
                /\ fd' = CloseOwned(fd)
                /\ UNCHANGED vk_format
    /\ UNCHANGED <<wgpu_format, wgpu_desc, hal_tex_desc, planeIdx, req, assetVars, envVars>>
    /\ UNCHANGED <<image, binds, allocCalls, guard, guardRuns, refs, calls, badFree>>

\* Mutant of StepToWgpu: the renderer format is not looked up here.
StepToWgpuUnchecked ==
    /\ UNCHANGED <<tableVars, targetVars>>
    /\ pc = "vulkan_to_wgpu"
    /\ pc' = "ensure_modifier_supported"
    /\ UNCHANGED <<dma, result, fd, wgpu_format, wgpu_desc, hal_tex_desc>>
    /\ UNCHANGED <<vk_format, planeIdx, req, assetVars, envVars>>
    /\ UNCHANGED <<image, binds, allocCalls, guard, guardRuns, refs, calls, badFree>>

\* let wgpu_format = vulkan_to_wgpu(vk_format).ok_or(WgpuIncompatibleFormat)?
\* let wgpu_desc = wgpu_texture_desc(&dma, wgpu_format, usage)
StepToWgpu ==
    /\ UNCHANGED <<tableVars, targetVars>>
    /\ pc = "vulkan_to_wgpu"
    /\ LET w == vulkan_to_wgpu(vk_format)
       IN  IF IsSome(w)
           THEN /\ wgpu_format' = Unwrap(w)
                /\ wgpu_desc' = Some(wgpu_texture_desc(Unwrap(dma), Unwrap(w), usage))
                /\ pc' = "ensure_modifier_supported"
                /\ UNCHANGED <<dma, result, fd>>
           ELSE /\ Fail("WgpuIncompatibleFormat")
                /\ fd' = CloseOwned(fd)
                /\ UNCHANGED <<wgpu_format, wgpu_desc>>
    /\ UNCHANGED <<vk_format, hal_tex_desc, planeIdx, req, assetVars, envVars>>
    /\ UNCHANGED <<image, binds, allocCalls, guard, guardRuns, refs, calls, badFree>>

\* ensure_modifier_supported(&vk_device, vk_format, dma.format.modifier)?
StepEnsureModifier ==
    /\ UNCHANGED <<tableVars, targetVars>>
    /\ pc = "ensure_modifier_supported"
    /\ calls' = Append(calls, Call("get_physical_device_format_properties2", 0))
    /\ IF ensure_modifier_supported(device, vk_format, Unwrap(dma).modifier)
       THEN pc' = "create_vk_image" /\ UNCHANGED <<dma, result, fd>>
       ELSE Fail("ModifierInvalid") /\ fd' = CloseOwned(fd)
    /\ UNCHANGED <<vk_format, wgpu_format, wgpu_desc, hal_tex_desc, planeIdx, req,
                   assetVars, envVars>>
    /\ UNCHANGED <<image, binds, allocCalls, guard, guardRuns, refs, badFree>>

\* create_vk_image: the create flags follow `disjoint`; vkCreateImage succeeds
\* or fails as the driver decides.
create_vk_image(ok, disjoint) ==
    LET create_flags == IF disjoint THEN "DISJOINT" ELSE "empty"
    IN  IF ok THEN [image |-> "alive", err |-> "none", flags |-> create_flags]
        ELSE [image |-> "none", err |-> "VulkanImageCreationFailed", flags |-> create_flags]

\* The create_image call with its vk::ImageCreateFlags and the plane layouts
\* of its ImageDrmFormatModifierExplicitCreateInfoEXT.
CreateImage(flags, layouts) ==
    [op |-> "create_image", arg |-> 0, flags |-> flags, layouts |-> layouts]

\* let image = create_vk_image(&vk_device, &dma, vk_format, disjoint)?
\* let hal_tex_desc = hal_texture_desc(&dma, wgpu_format, usage)
StepCreateImage ==
    /\ UNCHANGED <<tableVars, targetVars>>
    /\ pc = "create_vk_image"
    /\ \E ok \in BOOLEAN :
         LET r == create_vk_image(ok, needs_disjoint(Unwrap(dma)))
         IN  /\ calls' = Append(calls, CreateImage(r.flags, plane_layouts(Unwrap(dma))))
             /\ IF r.err = "none"
                THEN /\ image' = r.image
                     /\ hal_tex_desc' = Some(hal_texture_desc(Unwrap(dma), wgpu_format, usage))
                     /\ pc' = "import_planes"
                     /\ UNCHANGED <<dma, result, fd>>
                ELSE /\ Fail(r.err)
                     /\ fd' = CloseOwned(fd)
                     /\ UNCHANGED <<image, hal_tex_desc>>
    /\ UNCHANGED <<vk_format, wgpu_format, wgpu_desc, planeIdx, req,
                   assetVars, envVars>>
    /\ UNCHANGED <<binds, allocCalls, guard, guardRuns, refs, badFree>>


\* import_plane_memory for one plane: pick a memory type, turn the OwnedFd into
\* a raw fd and hand it to allocate_memory.  Without an eligible memory type the
\* plane is dropped (its fd closed) before any allocation; a failed allocation
\* leaves the raw fd open and unowned; a successful one gives it to the driver.
import_plane_memory(memTypes, bits, allocOk) ==
    LET idx == select_memory_type_index(bits, memTypes)
    IN  IF ~IsSome(idx)
        THEN [err |-> "NoValidMemoryTypes", fd |-> "closed", allocs |-> 0, index |-> None]
        ELSE IF allocOk
             THEN [err |-> "none", fd |-> "driver", allocs |-> 1, index |-> idx]
             ELSE [err |-> "VulkanMemoryAllocFailed", fd |-> "leaked", allocs |-> 1,
                   index |-> idx]

\* The allocate_memory call for plane p with the chosen memory type.
AllocateMemory(p, idx) ==
    [op |-> "allocate_memory", arg |-> p, memory_type_index |-> idx]

\* Mutant of NextPlane: every iteration takes the first plane again.
NextPlaneFirstAgain(i) == 1

\* The plane that dma.planes.into_iter() yields after i planes were taken.
NextPlane(i) == i + 1

\* import_and_bind_image_memory up to query_image_requirements: the single
\* plane of the combined path (NoPlanes if there is none), or the next plane of
\* the disjoint loop (IncorrectNumberOfPlanes past the fourth); the driver
\* answers with the memory_type_bits of the image or plane.
StepQueryRequirements ==
    /\ UNCHANGED <<tableVars, targetVars>>
    /\ pc = "import_planes" /\ req = None
    /\ LET d == Unwrap(dma)
           disjoint == needs_disjoint(d)
           p == NextPlane(planeIdx)
       IN  IF ~disjoint /\ d.nplanes = 0
           THEN /\ Fail("NoPlanes")
                /\ fd' = CloseOwned(fd)
                /\ UNCHANGED <<calls, req>>
           ELSE IF disjoint /\ ~IsSome(memory_plane_aspect(planeIdx))
           THEN /\ Fail("IncorrectNumberOfPlanes")
                /\ fd' = CloseOwned(fd)
                /\ UNCHANGED <<calls, req>>
           ELSE \E bits \in TypeBits :
                  /\ req' = Some([memory_type_bits |-> bits])
                  /\ calls' = Append(calls, Call("get_image_memory_requirements2",
                                                 IF disjoint THEN p ELSE 0))
                  /\ UNCHANGED <<pc, dma, result, fd>>
    /\ UNCHANGED <<vk_format, wgpu_format, wgpu_desc, hal_tex_desc, planeIdx, assetVars,
                   envVars>>
    /\ UNCHANGED <<image, binds, allocCalls, guard, guardRuns, refs, badFree>>

\* Mutant of LastPlane: the plane loop ends after whichever plane it took.
LastPlaneAlways(d, i) == TRUE

\* import_and_bind_image_memory goes on to bind_image_memory after the plane
\* taken at index i: the only plane of the combined path, or the plane that
\* exhausts dma.planes.into_iter() in the disjoint loop.
LastPlane(d, i) == ~needs_disjoint(d) \/ i + 1 = d.nplanes

\* import_and_bind_image_memory, the rest of one plane: import_plane_memory
\* with the PlaneReq just queried, and the push of its PlaneBind.
StepImportPlane ==
    /\ UNCHANGED <<tableVars, targetVars>>
    /\ pc = "import_planes" /\ IsSome(req)
    /\ req' = None
    /\ LET d == Unwrap(dma)
           disjoint == needs_disjoint(d)
           p == NextPlane(planeIdx)
       IN  \E allocOk \in BOOLEAN :
             LET r == import_plane_memory(device.memTypes, Unwrap(req).memory_type_bits,
                                          allocOk)
                 fdAfter == [fd EXCEPT ![p] = r.fd]
                 last == LastPlane(d, planeIdx)
             IN  /\ calls' = calls \o (IF r.allocs = 1
                                       THEN << AllocateMemory(p, Unwrap(r.index)) >>
                                       ELSE << >>)
                 /\ allocCalls' = [allocCalls EXCEPT ![p] = @ + r.allocs]
                 /\ IF r.err = "none"
                    THEN /\ binds' = Append(binds,
                               [plane |-> p,
                                aspect |-> IF disjoint THEN memory_plane_aspect(planeIdx)
                                           ELSE None,
                                mem |-> "alive"])
                         /\ planeIdx' = planeIdx + 1
                         /\ UNCHANGED result
                         /\ IF last
                            THEN /\ pc' = "bind_image_memory"
                                 /\ dma' = None
                                 /\ fd' = CloseOwned(fdAfter)
                            ELSE /\ pc' = "import_planes"
                                 /\ fd' = fdAfter
                                 /\ UNCHANGED dma
                    ELSE /\ Fail(r.err)
                         /\ fd' = CloseOwned(fdAfter)
                         /\ UNCHANGED <<binds, planeIdx>>
    /\ UNCHANGED <<vk_format, wgpu_format, wgpu_desc, hal_tex_desc, assetVars, envVars>>
    /\ UNCHANGED <<image, guard, guardRuns, refs, badFree>>

\* bind_image_memory: one vkBindImageMemory2 call carrying every PlaneBind.
bind_image_memory(ok) == IF ok THEN "none" ELSE "VulkanImageMemoryBindFailed"

StepBind ==
    /\ UNCHANGED <<tableVars, targetVars>>
    /\ pc = "bind_image_memory"
    /\ calls' = Append(calls, Call("bind_image_memory2", Len(binds)))
    /\ \E ok \in BOOLEAN :
         LET e == bind_image_memory(ok)
         IN  IF e = "none"
             THEN pc' = "texture_from_raw" /\ UNCHANGED <<dma, result>>
             ELSE Fail(e)
    /\ UNCHANGED <<vk_format, wgpu_format, wgpu_desc, hal_tex_desc, planeIdx, req,
                   assetVars, envVars>>
    /\ UNCHANGED <<image, binds, fd, allocCalls, guard, guardRuns, refs, badFree>>

\* The texture_from_raw call with the descriptor it is given.
TextureFromRaw(desc) == [op |-> "texture_from_raw", arg |-> 0, desc |-> desc]

\* texture_from_raw(image, desc, Some(drop_callback)), create_texture_from_hal,
\* create_view, Ok(ImportedTexture): the release routine is registered and the
\* caller receives the only holder of the texture.
StepTextureFromRaw ==
    /\ UNCHANGED <<tableVars, targetVars>>
    /\ pc = "texture_from_raw"
    /\ calls' = Append(calls, TextureFromRaw(hal_tex_desc))
    /\ guard' = "registered"
    /\ refs' = 1
    /\ result' = "Ok"
    /\ pc' = "returned"
    /\ UNCHANGED <<dma, vk_format, wgpu_format, wgpu_desc, hal_tex_desc, planeIdx, req,
                   assetVars, envVars>>
    /\ UNCHANGED <<image, binds, fd, allocCalls, guardRuns, badFree>>

\* ------------------------------------------------------- prepare_asset
\* Mutant of prepare_asset: an import error is propagated as an Err result.
prepare_asset_propagates(v, res) ==
    IF res = "Ok"
    THEN [ret |-> "Ok", gpu |-> "Imported", notes |-> << >>]
    ELSE [ret |-> "Err", gpu |-> "None", notes |-> << >>]

\* Mutant of prepare_asset: a failed import triggers no notification.
prepare_asset_silent_failure(v, res) ==
    IF res = "Ok"
    THEN [ret |-> "Ok", gpu |-> "Imported",
          notes |-> IF v = "events" THEN << "ExternalBufferImported" >> ELSE << >>]
    ELSE [ret |-> "Ok", gpu |-> "Invalid", notes |-> << >>]

\* What prepare_asset makes of the import result: the GPU asset, the
\* notification it triggers and its own return value.
prepare_asset(v, res) ==
    IF res = "Ok"
    THEN [ret |-> "Ok", gpu |-> "Imported",
          notes |-> IF v = "events" THEN << "ExternalBufferImported" >> ELSE << >>]
    ELSE [ret |-> "Ok", gpu |-> "Invalid",
          notes |-> IF v = "events" THEN << "ExternalBufferImportFailed" >> ELSE << >>]

prepare_asset_end ==
    /\ UNCHANGED <<tableVars, targetVars>>
    /\ pc = "returned"
    /\ LET r == prepare_asset(variant, result)
       IN  /\ prepareRet' = r.ret
           /\ gpuAsset' = IF r.ret = "Ok" THEN r.gpu ELSE gpuAsset
           /\ notes' = notes \o r.notes
    /\ pc' = "idle"
    /\ UNCHANGED <<assetLive, creation_data, extracted, lastExtract, handed, sampling,
                 importCalls>>
    /\ UNCHANGED <<dma, vk_format, wgpu_format, wgpu_desc, hal_tex_desc, planeIdx, req,
                   result, resVars, envVars>>

\* ------------------------------------------------------------ the host
\* A holder clones the texture handle (a GpuImage, an event, a view).
CloneRef ==
    /\ UNCHANGED <<tableVars, targetVars>>
    /\ pc = "idle" /\ refs >= 1 /\ refs < MaxRefs
    /\ refs' = refs + 1
    /\ UNCHANGED <<assetVars, callVars, envVars>>
    /\ UNCHANGED <<image, binds, fd, allocCalls, guard, guardRuns, calls, badFree>>

\* A holder other than the GPU asset drops its handle.
DropRef ==
    /\ UNCHANGED <<tableVars, targetVars>>
    /\ pc = "idle"
    /\ refs > (IF gpuAsset = "Imported" THEN 1 ELSE 0)
    /\ ReleaseRef
    /\ UNCHANGED <<fd, allocCalls, assetVars, callVars, envVars>>

\* What the main-world steps of a sampling buffer leave alone.
SamplingFrame ==
    /\ UNCHANGED <<tableVars, targetVars>>
    /\ UNCHANGED <<assetLive, creation_data, extracted, lastExtract, handed, gpuAsset,
                   prepareRet, notes, importCalls>>
    /\ UNCHANGED <<callVars, resVars, envVars>>

\* The user drops the Handle<Image> that load returned: its Image, if any, is
\* removed from Assets<Image>.
DropImageHandle ==
    /\ variant = "events" /\ pc = "idle"
    /\ sampling.handle
    /\ sampling' = [sampling EXCEPT !.handle = FALSE, !.image = "none"]
    /\ SamplingFrame

\* sync_external_buffer_to_image_handle: an Unused, Added or Modified event of
\* the image removes its table entry.
sync_external_buffer_to_image_handle ==
    /\ variant = "events" /\ pc = "idle"
    /\ sampling.entry
    /\ ~sampling.handle \/ sampling.image = "fallback"
    /\ sampling' = [sampling EXCEPT !.entry = FALSE]
    /\ SamplingFrame

\* trigger_failed_import_events: in the extract schedule the failed imports
\* the render world recorded are triggered in the main world, where the
\* observer on_buffer_import_failed handles each.  Assets::insert succeeds
\* while the handle of the id is alive.
trigger_failed_import_events ==
    /\ FailurePending /\ pc = "idle"
    /\ \E insertOk \in (IF sampling.handle THEN {TRUE} ELSE BOOLEAN) :
         sampling' = [on_buffer_import_failed(sampling, insertOk) EXCEPT !.reported = TRUE]
    /\ SamplingFrame

\* The asset is removed from the main world and unloaded from the render world;
\* creation data that was never extracted is dropped with it.  The handle of a
\* sampling buffer is held by its table entry.
Remove ==
    /\ UNCHANGED <<tableVars, targetVars>>
    /\ assetLive /\ pc = "idle" /\ extracted = None
    /\ variant = "events" => ~sampling.entry
    /\ assetLive' = FALSE
    /\ gpuAsset' = "None"
    /\ creation_data' = None
    /\ fd' = IF IsSome(creation_data) THEN CloseOwned(fd) ELSE fd
    /\ IF gpuAsset = "Imported"
       THEN ReleaseRef
       ELSE UNCHANGED <<refs, binds, image, calls, badFree, guard, guardRuns>>
    /\ UNCHANGED <<extracted, lastExtract, handed, prepareRet, notes, sampling, importCalls>>
    /\ UNCHANGED <<allocCalls, callVars, envVars>>

\* =============================================================== table path
\* DmabufImportPlugin::build: the order of the render schedule's steps within a
\* frame (asset preparation, InsertIntoGpuImages, AcquireDmatexs, the render
\* passes, ReleaseDmatexs in Cleanup).
NextStageAcquireFirst(s) ==
    CASE s = "extract" -> "acquire"
      [] s = "acquire" -> "insert"
      [] s = "insert" -> "render"
      [] s = "render" -> "release"
      [] s = "release" -> "extract"

NextStage(s) ==
    CASE s = "extract" -> "insert"
      [] s = "insert" -> "acquire"
      [] s = "acquire" -> "render"
      [] s = "render" -> "release"
      [] s = "release" -> "extract"

\* acquire_dmatex_images / release_dmatex_images: the direction passed on.
direction == IF stage = "acquire" THEN "Acquire" ELSE "Release"

\* The Mutex of ImportedDmatexs is held: by the import step for its whole
\* loop, or by memory_barrier from its lock step to its return.
TableLockHeld == IsSome(loop) \/ mb.locked

\* self.0.lock() of a main-world call: the call goes on once no one else
\* holds the mutex.  The main world runs beside the render world except while
\* the render passes run (a call made then is placed after them) and between
\* the return of memory_barrier and the end of the system that called it.
MainWorldMayRun ==
    /\ variant = "table"
    /\ stage # "render"
    /\ mb.pc \notin {"returned", "panicked"}
    /\ ~TableLockHeld

\* Drop for DropCallback, as the calls it makes: the callback is taken out of
\* the Option and called.
drop_DropCallback_not_called == << >>

drop_DropCallback == <<"on_drop">>

\* The closure import_texture hands to texture_from_raw, as the calls it
\* makes when the texture is destroyed: on a Vulkan device every plane memory
\* is freed and the image destroyed; the DropCallback it captured goes out of
\* scope at its end.
texture_drop_callback(dev) ==
    (IF dev.vulkan THEN <<"free_memory", "destroy_image">> ELSE << >>)
        \o drop_DropCallback

\* How often a sequence of calls calls the callback.
CallbackRuns(trace) == Cardinality({i \in DOMAIN trace : trace[i] = "on_drop"})

\* A DropCallback goes out of scope, on its own or inside the closure of a
\* destroyed texture: what runs, and the callback is gone afterwards.
DropsCallback(id, trace) ==
    /\ dropTrace' = trace
    /\ dropRuns' = [dropRuns EXCEPT ![id] = @ + CallbackRuns(trace)]
    /\ on_drop' = [on_drop EXCEPT ![id] = "dropped"]

\* imported.remove(&asset_id) with the removed value dropped at once: an
\* UnImported entry drops its DropCallback; an Imported entry drops the last
\* holder of its texture, which runs the texture's drop closure if
\* import_texture made it.
DropEntry(id) ==
    CASE on_drop[id] = "entry" -> DropsCallback(id, drop_DropCallback)
      [] on_drop[id] = "texture" -> DropsCallback(id, texture_drop_callback(device))
      [] OTHER -> UNCHANGED dropVars

\* ImportedDmatexs::set(images, buf, usage, on_drop): get_handle fails before
\* anything is registered; otherwise a fresh Image and an UnImported entry
\* that owns DropCallback(on_drop).
set ==
    /\ MainWorldMayRun
    /\ nextId <= MaxIds
    /\ \E buf \in TableDmatexs :
         IF get_imported_descriptor(buf).err # "none"
         THEN UNCHANGED <<table, images, nextId, on_drop>>
         ELSE /\ images' = images \cup {nextId}
              /\ table' = [table EXCEPT ![nextId] = UnImported(buf)]
              /\ on_drop' = [on_drop EXCEPT ![nextId] = "entry"]
              /\ nextId' = nextId + 1
    /\ UNCHANGED <<gpu_images, frameVars, loopVars, importCount, dropRuns, dropTrace, mb,
                   assetSide, targetVars>>

\* ImportedDmatexs::insert_imported_dmatex(images, tex): a texture imported
\* elsewhere is registered as Imported under a fresh Image.
insert_imported_dmatex ==
    /\ MainWorldMayRun
    /\ nextId <= MaxIds
    /\ images' = images \cup {nextId}
    /\ table' = [table EXCEPT ![nextId] = Imported]
    /\ nextId' = nextId + 1
    /\ UNCHANGED <<gpu_images, frameVars, loopVars, importVars, mb, assetSide, targetVars>>

\* The application drops the last Handle<Image>: the Image asset is removed.
\* The render world reads Assets<Image> at extraction only, so a drop made
\* during a frame is placed at the extraction that shows it.
DropImage ==
    /\ MainWorldMayRun
    /\ stage = "extract"
    /\ \E id \in images : images' = images \ {id}
    /\ UNCHANGED <<table, gpu_images, nextId, frameVars, loopVars, importVars, mb, assetSide,
                   targetVars>>

\* prepare_assets::<GpuImage>, which the import step is ordered after: every
\* live Image has a GpuImage (a placeholder when new), every other id has none.
PrepareGpuImages ==
    /\ variant = "table" /\ stage = "extract"
    /\ gpu_images' = [id \in Ids |->
                        IF id \notin images THEN "none"
                        ELSE IF gpu_images[id] = "none" THEN "dummy"
                        ELSE gpu_images[id]]
    /\ stage' = NextStage(stage)
    /\ frameLog' = << >>
    /\ imported' = {}
    /\ submitted' = NothingSubmitted
    /\ UNCHANGED acquired
    /\ UNCHANGED <<table, images, nextId, loopVars, importVars, mb, assetSide, targetVars>>

\* insert_dmatex_into_gpu_images: the table is locked and its keys collected.
insert_begin ==
    /\ variant = "table" /\ stage = "insert" /\ ~TableLockHeld
    /\ loop' = Some([todo |-> {id \in Ids : table[id].st # "Absent"}, start |-> table])
    /\ frameLog' = Append(frameLog, "insert")
    /\ UNCHANGED <<mainVars, stage, imported, submitted, acquired, attemptOrder, outcome,
                   importVars, mb, assetSide, targetVars>>

\* The `continue` of the failed-import arm: the other handles stay to do.
AfterImportErrorBreak(rest) == {}

AfterImportError(rest) == rest

\* Mutant of SetTextureView: the GpuImage keeps what it had.
SetTextureViewSkipped(g, id) == g

\* The tail of an iteration: the GpuImage of the id takes the texture, view,
\* size and mip count of the Imported entry.
SetTextureView(g, id) == [g EXCEPT ![id] = "imported"]

\* One iteration of the loop over the collected handles, in any order.  The
\* transfers of an image end with its texture.
insert_iteration ==
    /\ IsSome(loop)
    /\ \E id \in Unwrap(loop).todo, fault \in DriverFaults :
         LET rest == Unwrap(loop).todo \ {id}
             e == table[id]
             Continue(todo) == loop' = Some([Unwrap(loop) EXCEPT !.todo = todo])
         IN  IF gpu_images[id] = "none"
             THEN /\ table' = [table EXCEPT ![id] = AbsentEntry]
                  /\ DropEntry(id)
                  /\ Continue(rest)
                  /\ UNCHANGED <<gpu_images, imported, attemptOrder, outcome, importCount>>
             ELSE IF e.st = "UnImported"
             THEN \E r \in {import_texture(Unwrap(e.buf), device, fault)} :
                    /\ attemptOrder' = Append(attemptOrder, id)
                    /\ outcome' = [outcome EXCEPT ![id] = r.res]
                    /\ importCount' = [importCount EXCEPT ![id] = @ + 1]
                    /\ IF r.res = "Ok"
                       THEN /\ table' = [table EXCEPT ![id] = Imported]
                            /\ gpu_images' = SetTextureView(gpu_images, id)
                            /\ imported' = imported \cup {id}
                            /\ on_drop' = [on_drop EXCEPT ![id] = "texture"]
                            /\ Continue(rest)
                            /\ UNCHANGED <<dropRuns, dropTrace>>
                       ELSE /\ table' = [table EXCEPT ![id] = AbsentEntry]
                            /\ DropsCallback(id, drop_DropCallback)
                            /\ Continue(AfterImportError(rest))
                            /\ UNCHANGED <<gpu_images, imported>>
             ELSE /\ gpu_images' = SetTextureView(gpu_images, id)
                  /\ Continue(rest)
                  /\ UNCHANGED <<table, imported, attemptOrder, outcome, importCount,
                                 dropVars>>
    /\ acquired' = {id \in acquired : table'[id].st = "Imported"}
    /\ UNCHANGED <<images, nextId, stage, frameLog, submitted, mb, assetSide, targetVars>>

\* The loop is over: the lock guard is dropped and the system returns.
insert_end ==
    /\ IsSome(loop) /\ Unwrap(loop).todo = {}
    /\ loop' = None
    /\ attemptOrder' = << >>
    /\ outcome' = [id \in Ids |-> "none"]
    /\ dropTrace' = << >>
    /\ stage' = NextStage(stage)
    /\ UNCHANGED <<mainVars, frameLog, imported, submitted, acquired, importCount, on_drop,
                   dropRuns, mb,
                   assetSide, targetVars>>

\* The render passes of the frame: the renderer reads the GpuImages.  What the
\* frame imported and acquired has been used by then and is no longer tracked.
Render ==
    /\ variant = "table" /\ stage = "render"
    /\ stage' = NextStage(stage)
    /\ frameLog' = Append(frameLog, "render")
    /\ imported' = {}
    /\ submitted' = NothingSubmitted
    /\ UNCHANGED acquired
    /\ UNCHANGED <<mainVars, loopVars, importVars, mb, assetSide, targetVars>>

\* ------------------------------------------------------------ memory_barrier
\* The value queue_submit signals on the timeline semaphore, and the value
\* wait_semaphores waits for.
SignalValue == 2
WaitValue == 2

\* wait_semaphores succeeds only once the semaphore has reached the waited value.
WaitSatisfiedAlways(v) == TRUE

WaitSatisfied(v) == v >= WaitValue

\* src/dst queue family of the barrier for a direction.
queue_family_indices_acquire_only(dir) ==
    [src |-> "QUEUE_FAMILY_EXTERNAL", dst |-> "queue_family_index"]

queue_family_indices(dir) ==
    IF dir = "Acquire"
    THEN [src |-> "QUEUE_FAMILY_EXTERNAL", dst |-> "queue_family_index"]
    ELSE [src |-> "queue_family_index", dst |-> "QUEUE_FAMILY_EXTERNAL"]

\* The vk::ImageMemoryBarrier recorded for one image.
ImageMemoryBarrier(id, dir) ==
    [image |-> id, old_layout |-> "GENERAL", new_layout |-> "GENERAL",
     src |-> queue_family_indices(dir).src, dst |-> queue_family_indices(dir).dst]

\* Mutant of cmd_pipeline_barriers: entries still UnImported get a barrier too.
cmd_pipeline_barriers_every_entry(t, ids, dir) ==
    LET present == {i \in ids : t[i].st # "Absent"}
        Ordered == CHOOSE q \in [1 .. Cardinality(present) -> present] :
                      \A a, b \in DOMAIN q : a < b => q[a] < q[b]
    IN  [k \in 1 .. Cardinality(present) |-> ImageMemoryBarrier(Ordered[k], dir)]

\* The loop over the table: one cmd_pipeline_barrier per Imported entry
\* (UnImported entries are filtered out), in the order the map yields them.
RECURSIVE cmd_pipeline_barriers(_, _, _)
cmd_pipeline_barriers(t, ids, dir) ==
    IF ids = {} THEN << >>
    ELSE LET id == CHOOSE i \in ids : \A j \in ids : i <= j
             rest == cmd_pipeline_barriers(t, ids \ {id}, dir)
         IN  IF t[id].st = "Imported"
             THEN <<ImageMemoryBarrier(id, dir)>> \o rest
             ELSE rest

\* The else-branch of each fallible step: what it destroys before returning.
FailureCleanupLeaksSemaphore(step) ==
    IF step = "create_command_pool" THEN {} ELSE {"pool"}

FailureCleanup(step) ==
    IF step = "create_command_pool" THEN {}
    ELSE IF step \in {"queue_submit", "wait_semaphores"} THEN {"pool", "semaphore"}
    ELSE {"pool"}

\* destroy_command_pool / destroy_semaphore on the objects named.
Destroyed(m, objs) ==
    [m EXCEPT !.pool = IF "pool" \in objs THEN "destroyed" ELSE @,
              !.poolDestroys = IF "pool" \in objs THEN @ + 1 ELSE @,
              !.semaphore = IF "semaphore" \in objs THEN "destroyed" ELSE @,
              !.semDestroys = IF "semaphore" \in objs THEN @ + 1 ELSE @]

\* A step succeeded: on to the next one.
StepDone(m, step, next) == [m EXCEPT !.pc = next, !.log = Append(@, step)]

\* A step failed: its else-branch cleans up and returns (the guard of the
\* table lock, if held, is dropped by the return).
StepFailed(m, step) ==
    [Destroyed(m, FailureCleanup(step)) EXCEPT
        !.pc = "returned", !.locked = FALSE, !.failed = step, !.log = Append(@, step)]

\* What a step of memory_barrier leaves alone.
BarrierStepFrame ==
    UNCHANGED <<mainVars, stage, frameLog, imported, loopVars, importVars, assetSide, targetVars>>

\* acquire_dmatex_images / release_dmatex_images call memory_barrier: as_hal
\* is unwrapped, then create_command_pool.
create_command_pool ==
    /\ variant = "table" /\ stage \in {"acquire", "release"} /\ mb.pc = "idle"
    /\ loop = None
    /\ frameLog' = Append(frameLog, stage)
    /\ IF ~device.vulkan
       THEN mb' = [IdleBarrier EXCEPT !.pc = "panicked"]
       ELSE \E ok \in BOOLEAN :
              mb' = IF ok
                    THEN StepDone([IdleBarrier EXCEPT !.pool = "alive"],
                                  "create_command_pool", "allocate_command_buffers")
                    ELSE StepFailed(IdleBarrier, "create_command_pool")
    /\ UNCHANGED <<mainVars, stage, imported, submitted, acquired, loopVars, importVars,
                   assetSide, targetVars>>

allocate_command_buffers ==
    /\ mb.pc = "allocate_command_buffers"
    /\ \E ok \in BOOLEAN :
         mb' = IF ok
               THEN StepDone([mb EXCEPT !.cmd = "initial"], "allocate_command_buffers", "lock")
               ELSE StepFailed(mb, "allocate_command_buffers")
    /\ UNCHANGED <<submitted, acquired>>
    /\ BarrierStepFrame

\* Mutant of lock_dmatexs: the table is read without taking its lock.
lock_dmatexs_unguarded ==
    /\ mb.pc = "lock"
    /\ mb' = StepDone([mb EXCEPT !.tableAtLock = Some(table)],
                      "lock", "begin_command_buffer")
    /\ UNCHANGED <<submitted, acquired>>
    /\ BarrierStepFrame

\* dmatexs.0.lock(): the guard is held until memory_barrier returns.
lock_dmatexs ==
    /\ mb.pc = "lock"
    /\ \E ok \in BOOLEAN :
         mb' = IF ok
               THEN StepDone([mb EXCEPT !.locked = TRUE, !.tableAtLock = Some(table)],
                             "lock", "begin_command_buffer")
               ELSE StepFailed(mb, "lock")
    /\ UNCHANGED <<submitted, acquired>>
    /\ BarrierStepFrame

begin_command_buffer ==
    /\ mb.pc = "begin_command_buffer"
    /\ \E ok \in BOOLEAN :
         mb' = IF ok
               THEN StepDone([mb EXCEPT !.cmd = "recording"],
                             "begin_command_buffer", "cmd_pipeline_barrier")
               ELSE StepFailed(mb, "begin_command_buffer")
    /\ UNCHANGED <<submitted, acquired>>
    /\ BarrierStepFrame

cmd_pipeline_barrier ==
    /\ mb.pc = "cmd_pipeline_barrier"
    /\ mb' = StepDone([mb EXCEPT !.barriers = cmd_pipeline_barriers(table, Ids, direction)],
                      "cmd_pipeline_barrier", "end_command_buffer")
    /\ UNCHANGED <<submitted, acquired>>
    /\ BarrierStepFrame

end_command_buffer ==
    /\ mb.pc = "end_command_buffer"
    /\ \E ok \in BOOLEAN :
         mb' = IF ok
               THEN StepDone([mb EXCEPT !.cmd = "executable"],
                             "end_command_buffer", "create_semaphore")
               ELSE StepFailed(mb, "end_command_buffer")
    /\ UNCHANGED <<submitted, acquired>>
    /\ BarrierStepFrame

create_semaphore ==
    /\ mb.pc = "create_semaphore"
    /\ \E ok \in BOOLEAN :
         mb' = IF ok
               THEN StepDone([mb EXCEPT !.semaphore = "alive"],
                             "create_semaphore", "queue_submit")
               ELSE StepFailed(mb, "create_semaphore")
    /\ UNCHANGED <<submitted, acquired>>
    /\ BarrierStepFrame

queue_submit ==
    /\ mb.pc = "queue_submit"
    /\ \E ok \in BOOLEAN :
         IF ok
         THEN /\ mb' = StepDone([mb EXCEPT !.cmd = "pending"], "queue_submit", "wait_semaphores")
              /\ submitted' = [submitted EXCEPT ![direction] =
                                  Some({mb.barriers[k].image : k \in DOMAIN mb.barriers})]
              /\ acquired' =
                    LET ids == {mb.barriers[k].image : k \in DOMAIN mb.barriers}
                    IN  IF direction = "Acquire" THEN acquired \cup ids ELSE acquired \ ids
         ELSE /\ mb' = StepFailed(mb, "queue_submit")
              /\ UNCHANGED <<submitted, acquired>>
    /\ BarrierStepFrame

\* The queue executes the submitted command buffer and signals the semaphore.
GpuExecute ==
    /\ mb.cmd = "pending"
    /\ mb' = [mb EXCEPT !.cmd = "complete",
                        !.semValue = IF mb.semaphore = "alive" THEN SignalValue ELSE @]
    /\ UNCHANGED <<submitted, acquired>>
    /\ BarrierStepFrame

\* wait_semaphores(.., u64::MAX): returns Ok once the value is reached, or an
\* error at any time.
wait_semaphores ==
    /\ mb.pc = "wait_semaphores"
    /\ \E ok \in BOOLEAN :
         IF ok
         THEN /\ WaitSatisfied(mb.semValue)
              /\ mb' = StepDone([mb EXCEPT !.wait = "Ok"], "wait_semaphores", "destroy")
         ELSE mb' = StepFailed([mb EXCEPT !.wait = "Err"], "wait_semaphores")
    /\ UNCHANGED <<submitted, acquired>>
    /\ BarrierStepFrame

\* The tail of memory_barrier: destroy_semaphore, destroy_command_pool, return.
destroy_and_return ==
    /\ mb.pc = "destroy"
    /\ mb' = [Destroyed(mb, {"pool", "semaphore"}) EXCEPT
                 !.pc = "returned", !.locked = FALSE, !.log = Append(@, "destroy")]
    /\ UNCHANGED <<submitted, acquired>>
    /\ BarrierStepFrame

\* The system that called memory_barrier is over; the schedule moves on.
FinishTransfer ==
    /\ mb.pc = "returned"
    /\ mb' = IdleBarrier
    /\ stage' = NextStage(stage)
    /\ UNCHANGED <<mainVars, frameLog, imported, submitted, acquired, loopVars,
                   importVars, assetSide, targetVars>>

\* ===================================================== render targets
\* The main world and the render world run their own systems: every step but
\* the second half of sync_render_targets.
TargetsMayRun == variant = "render_target" /\ ~syncing

\* CameraRenderTarget::init with ManualTextureViewHandles::reserve_handle: the
\* loaded buffer gets the next view handle, and the caller the bundle for it.
reserve_handle ==
    /\ TargetsMayRun
    /\ next_id < MaxHandles
    /\ buffers' = [buffers EXCEPT ![next_id] = "loading"]
    /\ next_id' = next_id + 1
    /\ UNCHANGED <<entities, render_target, pending, texture_views, cache, syncing, delivered>>
    /\ UNCHANGED <<assetSide, tableVars>>

\* The application spawns the ExternalRenderTargetBundle it was given: an
\* entity with ExternalRenderTarget and RenderTarget::None.
SpawnTarget ==
    /\ TargetsMayRun
    /\ \E h \in ViewHandles :
         /\ h < next_id /\ entities[h] = "none"
         /\ entities' = [entities EXCEPT ![h] = "spawned"]
    /\ UNCHANGED <<next_id, buffers, render_target, pending, texture_views, cache, syncing,
                   delivered>>
    /\ UNCHANGED <<assetSide, tableVars>>

\* The application despawns the entity.
DespawnTarget ==
    /\ TargetsMayRun
    /\ \E h \in ViewHandles :
         /\ entities[h] = "spawned"
         /\ entities' = [entities EXCEPT ![h] = "despawned"]
    /\ UNCHANGED <<next_id, buffers, render_target, pending, texture_views, cache, syncing,
                   delivered>>
    /\ UNCHANGED <<assetSide, tableVars>>

\* The import of a render-target buffer fails: nothing becomes pending.
TargetImportFailed ==
    /\ TargetsMayRun
    /\ \E h \in ViewHandles :
         /\ buffers[h] = "loading"
         /\ buffers' = [buffers EXCEPT ![h] = "failed"]
    /\ UNCHANGED <<next_id, entities, render_target, pending, texture_views, cache, syncing,
                   delivered>>
    /\ UNCHANGED <<assetSide, tableVars>>

\* CameraRenderTarget::on_buffer_imported: the view of the imported texture
\* is put into the pending set under the buffer's view handle.
on_buffer_imported ==
    /\ TargetsMayRun
    /\ \E h \in ViewHandles :
         /\ buffers[h] = "loading"
         /\ buffers' = [buffers EXCEPT ![h] = "imported"]
         /\ pending' = pending \cup {h}
    /\ UNCHANGED <<next_id, entities, render_target, texture_views, cache, syncing, delivered>>
    /\ UNCHANGED <<assetSide, tableVars>>

\* Mutant of Collected: every pending view is taken, entity or not.
CollectedAll(p, ents) == p

\* The first loop of sync_render_targets: the pending handles for which the
\* query finds an entity whose ExternalRenderTarget carries them.
Collected(p, ents) == {h \in p : ents[h] = "spawned"}

\* The orders in which the query may yield the entities of a set of handles.
Orders(S) ==
    {q \in [1 .. Cardinality(S) -> S] : \A i, j \in DOMAIN q : q[i] = q[j] => i = j}

\* sync_render_targets, first loop: pending.remove for every entity found,
\* pushed to the cache.
sync_render_targets_collect ==
    /\ TargetsMayRun
    /\ \E q \in Orders(Collected(pending, entities)) : cache' = cache \o q
    /\ pending' = pending \ Collected(pending, entities)
    /\ syncing' = TRUE
    /\ UNCHANGED <<next_id, buffers, entities, render_target, texture_views, delivered>>
    /\ UNCHANGED <<assetSide, tableVars>>

\* sync_render_targets, second loop: cache.drain(..) into ManualTextureViews
\* and the entities' RenderTarget, then cache.clear().
sync_render_targets_insert ==
    /\ variant = "render_target" /\ syncing
    /\ texture_views' = texture_views \cup {cache[i] : i \in DOMAIN cache}
    /\ render_target' = [h \in ViewHandles |->
                            IF \E i \in DOMAIN cache : cache[i] = h THEN "TextureView"
                            ELSE render_target[h]]
    /\ delivered' = [h \in ViewHandles |->
                        delivered[h] + Cardinality({i \in DOMAIN cache : cache[i] = h})]
    /\ cache' = << >>
    /\ syncing' = FALSE
    /\ UNCHANGED <<next_id, buffers, entities, pending>>
    /\ UNCHANGED <<assetSide, tableVars>>

vars == <<assetSide, tableVars, targetVars>>

Next ==
    \/ Load
    \/ Extract
    \/ prepare_asset_begin
    \/ StepAsHal
    \/ StepChooseFormat
    \/ StepToWgpu
    \/ StepEnsureModifier
    \/ StepCreateImage
    \/ StepQueryRequirements
    \/ StepImportPlane
    \/ StepBind
    \/ StepTextureFromRaw
    \/ prepare_asset_end
    \/ CloneRef
    \/ DropRef
    \/ Remove
    \/ DropImageHandle
    \/ sync_external_buffer_to_image_handle
    \/ trigger_failed_import_events
    \/ set
    \/ insert_imported_dmatex
    \/ DropImage
    \/ PrepareGpuImages
    \/ insert_begin
    \/ insert_iteration
    \/ insert_end
    \/ Render
    \/ create_command_pool
    \/ allocate_command_buffers
    \/ lock_dmatexs
    \/ begin_command_buffer
    \/ cmd_pipeline_barrier
    \/ end_command_buffer
    \/ create_semaphore
    \/ queue_submit
    \/ GpuExecute
    \/ wait_semaphores
    \/ destroy_and_return
    \/ FinishTransfer
    \/ reserve_handle
    \/ SpawnTarget
    \/ DespawnTarget
    \/ TargetImportFailed
    \/ on_buffer_imported
    \/ sync_render_targets_collect
    \/ sync_render_targets_insert

Spec == Init /\ [][Next]_vars


\* ---------------------------------------------------------------- claims
MemsAlive == {k \in DOMAIN binds : binds[k].mem = "alive"}

\* C1: when import_dmabuf_as_texture returns an error, no native image and no
\* imported plane memory of that call is still alive, and an image that is alive
\* after the call has its release guard registered.
C1_ErrorLeavesNothingAlive ==
    pc = "returned" =>
        /\ (result # "Ok" => image # "alive" /\ MemsAlive = {})
        /\ (image = "alive" => guard = "registered")

\* Positions of the calls of one kind in the call log.
CallsOf(op) == {i \in DOMAIN calls : calls[i].op = op}

\* C2: after a successful import the release routine runs exactly once, when the
\* last holder of the texture is gone; that run frees every imported plane
\* memory exactly once and then destroys the image; it never runs twice.
C2_ReleaseRunsOnce ==
    /\ guardRuns <= 1
    /\ guard = "registered" =>
          /\ refs >= 1 /\ guardRuns = 0
          /\ image = "alive" /\ MemsAlive = DOMAIN binds
    /\ guard = "ran" =>
          /\ refs = 0 /\ guardRuns = 1 /\ ~badFree
          /\ image = "destroyed" /\ MemsAlive = {}
          /\ Cardinality(CallsOf("destroy_image")) = 1
          /\ \A k \in DOMAIN binds :
               Cardinality({i \in CallsOf("free_memory") : calls[i].arg = binds[k].plane}) = 1
          /\ \A i \in CallsOf("free_memory"), j \in CallsOf("destroy_image") : i < j
    /\ guard = "none" => CallsOf("free_memory") \cup CallsOf("destroy_image") = {}

C2_Witness == guard = "ran" /\ Len(binds) >= 2 /\ refs = 0

\* C3: within one import call each plane's file descriptor is passed to at most
\* one allocate_memory call, and once the call has returned the descriptor is
\* gone: no plane fd is still owned by a Dmatex anyone could import again.
C3_FdConsumedOnce ==
    /\ \A p \in DOMAIN allocCalls : allocCalls[p] <= 1
    /\ Cardinality(CallsOf("allocate_memory")) <= Len(fd)
    /\ (importCalls >= 1 /\ pc \in {"returned", "idle"}) =>
          /\ \A p \in DOMAIN fd : fd[p] # "owned"
          /\ creation_data = None /\ dma = None /\ extracted = None

C3_Witness ==
    /\ pc = "returned" /\ Len(fd) >= 3
    /\ \E p \in DOMAIN fd : allocCalls[p] = 1 /\ fd[p] = "driver"
    /\ \E p \in DOMAIN fd : fd[p] = "closed"

\* C8: prepare_asset returns Ok for every import outcome: an import error
\* becomes the Invalid GPU asset, never a panic, an Err or a retry request.
C8_FailedImportNeverAborts ==
    /\ pc # "panicked"
    /\ prepareRet \in {"none", "Ok"}
    /\ (assetLive /\ pc = "idle" /\ importCalls >= 1) =>
          /\ prepareRet = "Ok"
          /\ (result # "Ok" <=> gpuAsset = "Invalid")
          /\ (result = "Ok" <=> gpuAsset = "Imported")

C8_Witness ==
    assetLive /\ pc = "idle" /\ gpuAsset = "Invalid" /\ result = "VulkanMemoryAllocFailed"

\* ------------------------------------------------------------------- C4
\* The recording loop of memory_barrier is over and the table is still locked.
BarriersRecorded ==
    mb.pc \in {"end_command_buffer", "create_semaphore", "queue_submit",
               "wait_semaphores", "destroy"}

BarriersOf(id) == {k \in DOMAIN mb.barriers : mb.barriers[k].image = id}

\* C4: an ownership transfer records exactly one barrier for every table entry
\* that is Imported and none for an UnImported (or absent) one; each barrier
\* keeps the GENERAL layout on both sides and moves the image from the external
\* queue family to the local one for Acquire, the other way round for Release.
C4_OneBarrierPerImportedEntry ==
    BarriersRecorded =>
        \A id \in Ids :
            /\ Cardinality(BarriersOf(id)) = (IF table[id].st = "Imported" THEN 1 ELSE 0)
            /\ \A k \in BarriersOf(id) :
                 /\ mb.barriers[k].old_layout = "GENERAL"
                 /\ mb.barriers[k].new_layout = "GENERAL"
                 /\ direction = "Acquire" =>
                       /\ mb.barriers[k].src = "QUEUE_FAMILY_EXTERNAL"
                       /\ mb.barriers[k].dst = "queue_family_index"
                 /\ direction = "Release" =>
                       /\ mb.barriers[k].src = "queue_family_index"
                       /\ mb.barriers[k].dst = "QUEUE_FAMILY_EXTERNAL"

\* A Release transfer recorded over a table with an Imported and an UnImported entry.
C4_Witness ==
    /\ BarriersRecorded /\ direction = "Release"
    /\ Len(mb.barriers) = 1
    /\ \E a, b \in Ids : table[a].st = "Imported" /\ table[b].st = "UnImported"

\* ------------------------------------------------------------------- C5
FrameSteps == <<"insert", "acquire", "render", "release">>

IsPrefix(s, t) == Len(s) <= Len(t) /\ \A i \in DOMAIN s : s[i] = t[i]

\* The render passes of this frame are about to run; they have run.
RenderDue == stage = "render"
Rendered == \E i \in DOMAIN frameLog : frameLog[i] = "render"

C6_FailureCleansUpOnce ==
    /\ mb.poolDestroys <= 1 /\ mb.semDestroys <= 1
    /\ \A i, j \in DOMAIN mb.log : i # j => mb.log[i] # mb.log[j]
    /\ mb.pc = "returned" =>
          /\ mb.pool # "alive" /\ mb.semaphore # "alive"
          /\ mb.poolDestroys = (IF mb.pool = "none" THEN 0 ELSE 1)
          /\ mb.semDestroys = (IF mb.semaphore = "none" THEN 0 ELSE 1)
          /\ ~mb.locked
          /\ IsSome(mb.tableAtLock) => table = Unwrap(mb.tableAtLock)
          /\ mb.failed # "none" => mb.log[Len(mb.log)] = mb.failed

\* A failed submission over a table that holds an imported image.
C6_Witness ==
    /\ mb.pc = "returned" /\ mb.failed = "queue_submit"
    /\ mb.pool = "destroyed" /\ mb.semaphore = "destroyed"
    /\ \E id \in Ids : table[id].st = "Imported"

\* ------------------------------------------------------------------- C7
ObjectsDestroyed == mb.pool = "destroyed" \/ mb.semaphore = "destroyed"

\* C7 as stated: after a successful submission memory_barrier returns only once
\* the wait on the semaphore has returned, and it never destroys the command
\* pool or the semaphore while the submitted command buffer may be pending.
C7_NeverDestroysWhilePending ==
    /\ (mb.pc = "returned" /\ mb.cmd \in {"pending", "complete"}) => mb.wait # "none"
    /\ ObjectsDestroyed => mb.cmd # "pending"

\* C7 (amended): after a successful submission memory_barrier returns only once
\* wait_semaphores has returned; when the wait returned Ok the command buffer
\* has completed before the pool and the semaphore are destroyed; the objects
\* are destroyed under a pending command buffer only when the wait returned an
\* error.
C7_DestroysAfterWaitReturned ==
    /\ (mb.pc = "returned" /\ mb.cmd \in {"pending", "complete"}) => mb.wait # "none"
    /\ mb.wait = "Ok" => mb.cmd = "complete"
    /\ (ObjectsDestroyed /\ mb.cmd = "pending") => mb.wait = "Err"

\* A transfer that was submitted, waited for and cleaned up.
C7_Witness ==
    /\ mb.pc = "returned" /\ mb.wait = "Ok" /\ mb.cmd = "complete"
    /\ mb.pool = "destroyed" /\ mb.semaphore = "destroyed"
    /\ Len(mb.barriers) >= 1

\* ------------------------------------------------------------------- C9
\* C9: a failed import is never made again.  Asset path: import is called at
\* most once for an asset, whose creation data is gone afterwards, and the
\* asset stays Invalid.  Table path: import_texture is called at most once for
\* an id, an id it was called for is never UnImported again, and the entry of a
\* failed import is gone from the table.
C9_FailedImportNeverRetried ==
    /\ importCalls <= 1
    /\ (importCalls = 1 /\ pc \in {"returned", "idle"}) => creation_data = None
    /\ (importCalls = 1 /\ pc = "idle" /\ assetLive /\ result \notin {"none", "Ok"}) =>
          gpuAsset = "Invalid"
    /\ \A id \in Ids :
          /\ importCount[id] <= 1
          /\ importCount[id] = 1 => table[id].st # "UnImported"
          /\ outcome[id] \notin {"none", "Ok"} => table[id].st = "Absent"

\* A later frame's import step has started and the entry of an id whose import
\* failed (its GpuImage is still the placeholder) was not there to be collected.
C9_Witness ==
    /\ IsSome(loop)
    /\ \E id \in Ids :
          /\ importCount[id] = 1 /\ gpu_images[id] = "dummy"
          /\ Unwrap(loop).start[id].st = "Absent" /\ outcome[id] = "none"

\* ------------------------------------------------------------------ C10
\* C10: no error latches.  When the import loop is over, every entry that was
\* UnImported with a GpuImage when the loop began has been attempted, whatever
\* happened to the entries before it, and its result is a result import_texture
\* has for that descriptor on its own; it is Imported exactly if that was Ok.
C10_NoErrorLatches ==
    (IsSome(loop) /\ Unwrap(loop).todo = {}) =>
        \A id \in Ids :
            (Unwrap(loop).start[id].st = "UnImported" /\ gpu_images[id] # "none") =>
                /\ outcome[id] \in
                     {import_texture(Unwrap(Unwrap(loop).start[id].buf), device, f).res :
                        f \in DriverFaults}
                /\ (outcome[id] = "Ok") <=> (table[id].st = "Imported")

\* In one loop, an import that failed and then an import that succeeded.
C10_Witness ==
    /\ Len(attemptOrder) = 2
    /\ outcome[attemptOrder[1]] \notin {"none", "Ok"}
    /\ outcome[attemptOrder[2]] = "Ok"
    /\ table[attemptOrder[2]].st = "Imported"

\* ------------------------------------------------------------------ C11
\* C11: when bind_image_memory2 fails the import returns
\* VulkanImageMemoryBindFailed, and by then every plane memory imported in that
\* call has been freed and the native image destroyed; no texture (no release
\* guard, no holder) exists for the image.
C11_BindFailureReleasesAll ==
    (pc = "returned" /\ result = "VulkanImageMemoryBindFailed") =>
        /\ image = "destroyed" /\ MemsAlive = {}
        /\ guard = "none" /\ refs = 0

\* ------------------------------------------------------------------ C12
\* C12: when allocate_memory fails for a plane the import returns
\* VulkanMemoryAllocFailed and the image created for it has been destroyed
\* exactly once by the time the error is returned.
C12_AllocFailureDestroysImageOnce ==
    (pc = "returned" /\ result = "VulkanMemoryAllocFailed") =>
        /\ image = "destroyed"
        /\ Cardinality(CallsOf("destroy_image")) = 1

\* ------------------------------------------------------------------ C13
\* The import call holds a descriptor whose code has no entry in the format table.
UnknownCodeHeld == IsSome(dma) /\ ~IsSome(get_vk_format(Unwrap(dma).code))

\* The call has made no driver call, created no image and imported no memory.
NothingTouched ==
    /\ calls = << >> /\ image = "none" /\ binds = << >>
    /\ \A p \in DOMAIN allocCalls : allocCalls[p] = 0

\* C13: on a Vulkan device, an import whose format code has no entry in the
\* format table returns VulkanIncompatibleFormat from choose_vk_format without
\* having allocated memory or created an image; the mapping gives every code
\* either one Vulkan format or that error.
C13_UnknownFormatAllocatesNothing ==
    /\ [](/\ pc = "choose_vk_format" =>
               LET r == choose_vk_format(Unwrap(dma))
               IN  /\ r.ok <=> IsSome(get_vk_format(Unwrap(dma).code))
                   /\ r.ok <=> r.err = "none"
                   /\ r.ok <=> r.fmt \in VkFormats
                   /\ ~r.ok => r.err = "VulkanIncompatibleFormat"
          /\ UnknownCodeHeld => pc \in {"as_hal", "choose_vk_format"} /\ NothingTouched
          /\ (pc = "returned" /\ result = "VulkanIncompatibleFormat") => NothingTouched)
    /\ [][(UnknownCodeHeld /\ pc = "choose_vk_format") =>
             (pc' = "returned" /\ result' = "VulkanIncompatibleFormat")]_vars

\* An import of a three-plane descriptor has returned the format error.
C13_Witness ==
    /\ pc = "returned" /\ result = "VulkanIncompatibleFormat" /\ Len(fd) = 3
    /\ \A p \in DOMAIN fd : fd[p] = "closed"

\* ------------------------------------------------------------------ C14
\* drm_format_modifier_plane_count: the planes a modifier defines, as the
\* device reports them with its modifier list.
drm_format_modifier_plane_count(modifier) == IF modifier = "LINEAR" THEN 1 ELSE 2

\* The import call holds a descriptor with at least one plane whose plane count
\* is not the one its modifier defines.
PlaneMismatchHeld ==
    /\ IsSome(dma) /\ Unwrap(dma).nplanes >= 1
    /\ Unwrap(dma).nplanes # drm_format_modifier_plane_count(Unwrap(dma).modifier)

\* C14: an import whose plane count differs from the plane count of its
\* modifier creates no image and allocates no memory, and when
\* IncorrectNumberOfPlanes is returned no driver call (device query, image
\* creation, allocation) has been made.
C14_PlaneMismatchFailsFirst ==
    /\ PlaneMismatchHeld => CallsOf("create_image") \cup CallsOf("allocate_memory") = {}
    /\ (pc = "returned" /\ result = "IncorrectNumberOfPlanes") => calls = << >>

\* ------------------------------------------------------------------ C15
\* C15: when an import returns NoPlanes no native image has been created and
\* no memory has been allocated.
C15_NoPlanesBeforeImage ==
    (pc = "returned" /\ result = "NoPlanes") =>
        /\ image = "none"
        /\ CallsOf("create_image") \cup CallsOf("allocate_memory") = {}

\* ------------------------------------------------------------------ C16
\* The import call is past the lookup of the renderer format.
PastToWgpu ==
    pc \in {"ensure_modifier_supported", "create_vk_image", "import_planes",
            "bind_image_memory", "texture_from_raw"}

\* C16: a Vulkan format without a renderer equivalent makes the import return
\* WgpuIncompatibleFormat before any driver call, so before the image is
\* created and before plane memory is imported or bound; a call that got
\* further has a renderer format.  import_texture never returns this error:
\* ImportedDmatexs::set has refused such a descriptor.
C16_WgpuErrorBeforeImage ==
    /\ (pc = "returned" /\ result = "WgpuIncompatibleFormat") => NothingTouched
    /\ PastToWgpu =>
          /\ IsSome(vulkan_to_wgpu(vk_format))
          /\ wgpu_format = Unwrap(vulkan_to_wgpu(vk_format))
    /\ (pc = "vulkan_to_wgpu" /\ ~IsSome(vulkan_to_wgpu(vk_format))) => NothingTouched
    /\ \A id \in Ids : outcome[id] # "WgpuIncompatibleFormat"

\* An import of a two-plane descriptor has returned WgpuIncompatibleFormat.
C16_Witness ==
    /\ pc = "returned" /\ result = "WgpuIncompatibleFormat" /\ Len(fd) = 2
    /\ vk_format = "A8B8G8R8_SRGB_PACK32"

\* ------------------------------------------------------------------ C17
\* The device lists the modifier of the descriptor held by the import call for
\* the negotiated format.
ModifierListed == <<vk_format, Unwrap(dma).modifier>> \in device.mods

\* C17: the import gets past ensure_modifier_supported only if the device lists
\* the descriptor's modifier for the negotiated format; otherwise (an empty
\* list included) it returns ModifierInvalid from that step, having queried the
\* device and nothing else: no image is created.
C17_OnlyListedModifierPasses ==
    /\ []((IsSome(dma) /\ pc \in {"create_vk_image", "import_planes"}) => ModifierListed)
    /\ [](image # "none" => \E m \in Modifiers : <<vk_format, m>> \in device.mods)
    /\ []((pc = "returned" /\ result = "ModifierInvalid") =>
            /\ calls = << Call("get_physical_device_format_properties2", 0) >>
            /\ image = "none" /\ binds = << >>)
    /\ [][(pc = "ensure_modifier_supported" /\ ~ModifierListed) =>
             (pc' = "returned" /\ result' = "ModifierInvalid")]_vars

\* ModifierInvalid from a device that lists no modifier at all.
C17_Witness ==
    /\ pc = "returned" /\ result = "ModifierInvalid"
    /\ device.vulkan /\ device.mods = {} /\ Len(fd) >= 1

\* ------------------------------------------------------------------ C18
\* C18: on a device that is not a Vulkan device, an import returns NotVulkan
\* without any driver call, and an ownership transfer ends with an error that
\* is returned or logged: memory_barrier does not panic.
C18_WrongBackendFailsFast ==
    ~device.vulkan =>
        /\ mb.pc # "panicked"
        /\ pc = "returned" => (result = "NotVulkan" /\ NothingTouched)
        /\ \A id \in Ids : outcome[id] \in {"none", "NotVulkan", "NoPlanes"}

\* ------------------------------------------------------------------ C19
\* The memory types of the device below its type count whose bit is set in the
\* bitmask and whose flags include neither PROTECTED nor LAZILY_ALLOCATED.
EligibleTypes(bits) ==
    {i \in 0 .. Len(device.memTypes) - 1 :
        /\ BitSet(bits, i)
        /\ "PROTECTED" \notin device.memTypes[i + 1]
        /\ "LAZILY_ALLOCATED" \notin device.memTypes[i + 1]}

Lowest(S) == CHOOSE i \in S : \A j \in S : i <= j

\* C19: for the bitmask the driver reported for a plane, the memory type passed
\* to allocate_memory is the lowest eligible index; the plane import returns
\* NoValidMemoryTypes, without allocating, exactly when no index is eligible;
\* no allocation ever uses a type with a forbidden flag.
C19_LowestEligibleMemoryType ==
    /\ [](\A i \in CallsOf("allocate_memory") :
            /\ calls[i].memory_type_index \in 0 .. Len(device.memTypes) - 1
            /\ "PROTECTED" \notin device.memTypes[calls[i].memory_type_index + 1]
            /\ "LAZILY_ALLOCATED" \notin device.memTypes[calls[i].memory_type_index + 1])
    /\ [][(pc = "import_planes" /\ IsSome(req)) =>
             LET eligible == EligibleTypes(Unwrap(req).memory_type_bits)
             IN  IF eligible = {}
                 THEN pc' = "returned" /\ result' = "NoValidMemoryTypes" /\ calls' = calls
                 ELSE /\ result' # "NoValidMemoryTypes"
                      /\ Len(calls') = Len(calls) + 1
                      /\ calls'[Len(calls')].op = "allocate_memory"
                      /\ calls'[Len(calls')].memory_type_index = Lowest(eligible)]_vars

\* On a device with two eligible memory types, one import whose planes were
\* given the lower type (both bits set) and the higher one (its bit alone).
C19_Witness ==
    /\ Len(device.memTypes) = 2 /\ EligibleTypes(3) = {0, 1}
    /\ \E i, j \in CallsOf("allocate_memory") :
          calls[i].memory_type_index = 0 /\ calls[j].memory_type_index = 1

\* ------------------------------------------------------------------ C20
\* C20: needs_disjoint is true exactly for a plane count above one; the image
\* is created with the DISJOINT flag exactly then; and exactly then every plane
\* gets a PlaneBind of its own, tagged with its memory-plane aspect, while the
\* combined path binds one untagged memory.  (fd has one entry per plane of the
\* descriptor.)
C20_DisjointIffSeveralPlanes ==
    /\ IsSome(dma) => (needs_disjoint(Unwrap(dma)) <=> Unwrap(dma).nplanes > 1)
    /\ \A i \in CallsOf("create_image") :
          calls[i].flags = (IF Len(fd) > 1 THEN "DISJOINT" ELSE "empty")
    /\ \A k \in DOMAIN binds :
          /\ binds[k].aspect = (IF Len(fd) > 1 THEN Some(k - 1) ELSE None)
          /\ binds[k].plane = k
    /\ \A i \in CallsOf("bind_image_memory2") :
          calls[i].arg = (IF Len(fd) > 1 THEN Len(fd) ELSE 1)

\* A three-plane import that went through: DISJOINT image, three binds.
C20_Witness ==
    /\ pc = "returned" /\ result = "Ok" /\ Len(fd) = 3 /\ Len(binds) = 3
    /\ \E i \in CallsOf("create_image") : calls[i].flags = "DISJOINT"

\* ---------------------------------------------------------------- C21
\* The sRGB table of the format negotiation, as pairs (base, sibling).
SrgbTable ==
    { <<"B8G8R8A8_UNORM", "B8G8R8A8_SRGB">>,
      <<"R8G8B8A8_UNORM", "R8G8B8A8_SRGB">>,
      <<"A8B8G8R8_UNORM_PACK32", "A8B8G8R8_SRGB_PACK32">> }

\* The descriptor held at the format step has a code of the format table.
KnownCodeHeld ==
    pc = "choose_vk_format" /\ IsSome(dma) /\ IsSome(get_vk_format(Unwrap(dma).code))

\* C21: the format step of a descriptor with a known code never fails, and the
\* format it negotiates is the sRGB sibling exactly when the sRGB flag is set
\* and the base format is in the sRGB table; otherwise it is the base format.
C21_SrgbSiblingOrBase ==
    [][KnownCodeHeld =>
         LET d == Unwrap(dma)
             base == Unwrap(get_vk_format(d.code))
             sib == {p \in SrgbTable : p[1] = base}
         IN  /\ pc' = "vulkan_to_wgpu"
             /\ result' = result
             /\ IF d.srgb /\ sib # {}
                THEN \E p \in sib : vk_format' = p[2]
                ELSE vk_format' = base]_vars

\* A descriptor asking for sRGB whose base format has no sibling went through
\* the format step with its base format.
C21_Witness ==
    /\ pc = "vulkan_to_wgpu"
    /\ IsSome(dma)
    /\ Unwrap(dma).srgb
    /\ Unwrap(dma).code = "Abgr2101010"
    /\ vk_format = "A2B10G10R10_UNORM_PACK32"

\* ---------------------------------------------------------------- C22
\* The steps of memory_barrier from taking the lock to its last statement.
BarrierUnderLock ==
    {"begin_command_buffer", "cmd_pipeline_barrier", "end_command_buffer",
     "create_semaphore", "queue_submit", "wait_semaphores", "destroy"}

\* C22: the table is only touched under its mutex.  The import step and
\* memory_barrier never hold it together; memory_barrier holds it whenever it
\* is past its lock step; the table changes only by the import step while it
\* holds the lock, or by a main-world call made while nobody holds it; and
\* between the lock step of memory_barrier and its return the table is the
\* one it locked.
C22_TableAccessUnderLock ==
    /\ [](~(IsSome(loop) /\ mb.locked))
    /\ [](mb.pc \in BarrierUnderLock => mb.locked)
    /\ [](mb.locked => mb.tableAtLock = Some(table))
    /\ [][table' # table =>
            \/ IsSome(loop) /\ ~mb.locked
            \/ ~TableLockHeld /\ ~TableLockHeld']_vars

\* memory_barrier walks a table with an entry in it, holding the lock.
C22_Witness ==
    /\ mb.pc = "cmd_pipeline_barrier"
    /\ mb.locked
    /\ ~IsSome(loop)
    /\ \E id \in Ids : table[id].st # "Absent"

\* ---------------------------------------------------------------- C23
\* memory_barrier is inside wait_semaphores and the queue has not signalled.
GpuWaitPending == mb.pc = "wait_semaphores" /\ ~WaitSatisfied(mb.semValue)

\* C23: only Acquire and Release block on the GPU: while a transfer waits for
\* the GPU the table lock is free, so that a registration from the main world
\* (set, insert_imported_dmatex) made at that moment goes on without waiting
\* for the GPU.
C23_RegistrationNeverWaitsOnGpu ==
    GpuWaitPending => ~TableLockHeld

\* ---------------------------------------------------------------- C24
\* C24: the creation data of an asset is handed to the render world at most
\* once.  The extraction that hands it over has no previous GPU asset, returns
\* exactly the data the asset held and leaves the asset without it; every
\* extraction after it returns AlreadyExtracted and hands nothing over; and
\* take_gpu_data called with a previous GPU asset on an asset that still holds
\* its data returns AlreadyExtracted and leaves the data where it is.
C24_CreationDataHandedOnce ==
    /\ [](handed <= 1)
    /\ [](handed = 1 => creation_data = None)
    /\ [](IsSome(creation_data) =>
            \A prev \in {"Imported", "Invalid"} :
               take_gpu_data(creation_data, prev) =
                  [ret |-> "AlreadyExtracted", source |-> creation_data, out |-> None])
    /\ [][handed' # handed /\ assetLive =>
            /\ handed = 0 /\ handed' = 1
            /\ gpuAsset = "None"
            /\ IsSome(creation_data)
            /\ lastExtract' = "Ok"
            /\ extracted' = Some([creation_data |-> creation_data])
            /\ creation_data' = None]_vars
    /\ [][handed = 1 /\ assetLive /\ assetLive' =>
            /\ lastExtract' \in {lastExtract, "AlreadyExtracted"}
            /\ extracted' # extracted => extracted' = None
            /\ creation_data' = None]_vars

\* An asset whose data was handed over and imported was extracted again, and
\* the second extraction got AlreadyExtracted.
C24_Witness ==
    /\ assetLive /\ handed = 1
    /\ gpuAsset = "Imported"
    /\ lastExtract = "AlreadyExtracted"
    /\ creation_data = None /\ extracted = None

\* ---------------------------------------------------------------- C25
\* C25: once the main world has been told of the failed import of a sampling
\* buffer, the buffer has no entry in ExternalBufferImageTable and the image
\* handle the user holds resolves to the fallback image; the report is made
\* only for an import that failed, whose GPU asset is Invalid; and neither
\* the import nor the report panics or returns an error to the scheduler.
C25_FailedSamplingImportFallsBack ==
    /\ [](sampling.reported =>
            /\ ~sampling.entry
            /\ sampling.handle => sampling.image = "fallback")
    /\ [](sampling.reported => pc # "panicked" /\ prepareRet = "Ok")
    /\ [][~sampling.reported /\ sampling'.reported =>
            /\ result \notin {"none", "Ok"}
            /\ assetLive => gpuAsset = "Invalid"
            /\ sampling.handle => sampling'.handle /\ sampling'.image = "fallback"
            /\ ~sampling'.entry]_vars

\* The import of a sampling buffer failed, its user still holds the image
\* handle, and the handle resolves to the fallback image.
C25_Witness ==
    /\ variant = "events"
    /\ gpuAsset = "Invalid"
    /\ sampling.reported /\ sampling.handle
    /\ sampling.image = "fallback" /\ ~sampling.entry

\* ---------------------------------------------------------------- C26
\* The table memory_barrier locked holds no Imported entry.
NoImportedAtLock ==
    /\ IsSome(mb.tableAtLock)
    /\ \A id \in Ids : Unwrap(mb.tableAtLock)[id].st # "Imported"

\* The steps of memory_barrier the driver can fail.
DriverSteps ==
    {"create_command_pool", "allocate_command_buffers", "lock", "begin_command_buffer",
     "end_command_buffer", "create_semaphore", "queue_submit", "wait_semaphores"}

\* C26: an Acquire or a Release over a table without an Imported entry is a
\* safe no-op.  It records no barrier and submits none; when it has returned
\* the table is the one it locked and its command pool and semaphore are
\* gone; the only errors it reports are failures of driver calls; and no step
\* of either call changes the table.
C26_TransferOverEmptyTableIsNoOp ==
    /\ [](NoImportedAtLock =>
            /\ mb.barriers = << >>
            /\ IsSome(submitted[direction]) => Unwrap(submitted[direction]) = {}
            /\ mb.failed \in DriverSteps \cup {"none"}
            /\ mb.pc = "returned" =>
                  /\ table = Unwrap(mb.tableAtLock)
                  /\ mb.pool = "destroyed"
                  /\ mb.semaphore \in {"none", "destroyed"}
                  /\ mb.failed = "none" => mb.wait = "Ok" /\ mb.semaphore = "destroyed")
    /\ [][mb.pc \notin {"idle", "allocate_command_buffers", "lock"} => table' = table]_vars

\* The Release of a frame whose Acquire also ran has returned without an
\* error over a table that holds an entry, none of them Imported.
C26_Witness ==
    /\ stage = "release" /\ mb.pc = "returned" /\ mb.failed = "none"
    /\ NoImportedAtLock
    /\ \E k \in DOMAIN frameLog : frameLog[k] = "acquire"
    /\ \E id \in Ids : table[id].st = "UnImported"

\* ---------------------------------------------------------------- C27
\* The usage flags the texture of a usage tag is to report.
ExpectedUsages(tag) ==
    IF tag = "Sampling" THEN {"TEXTURE_BINDING", "COPY_SRC"}
    ELSE {"RENDER_ATTACHMENT", "COPY_DST"}

\* C27: the descriptor of the texture is made of the descriptor's resolution
\* (one array layer, one mip level, one sample), the renderer equivalent of
\* the negotiated native format and the usage flags of the usage tag; it is
\* not changed while the asset lives, a successful import returns a texture of that
\* descriptor, and the native texture it wraps has the same size and format.
C27_TextureMatchesDescriptor ==
    /\ [][pc = "vulkan_to_wgpu" /\ pc' = "ensure_modifier_supported" =>
            /\ IsSome(wgpu_desc')
            /\ Unwrap(wgpu_desc').size =
                  [width |-> Unwrap(dma).res.x, height |-> Unwrap(dma).res.y,
                   depth_or_array_layers |-> 1]
            /\ Unwrap(wgpu_desc').mip_level_count = 1
            /\ Unwrap(wgpu_desc').sample_count = 1
            /\ Some(Unwrap(wgpu_desc').format) = vulkan_to_wgpu(vk_format)
            /\ Unwrap(wgpu_desc').usage = ExpectedUsages(usage)]_vars
    /\ [][IsSome(wgpu_desc) /\ (assetLive \/ ~assetLive') =>
            wgpu_desc' = wgpu_desc /\ usage' = usage]_vars
    /\ [](result = "Ok" =>
            /\ IsSome(wgpu_desc) /\ IsSome(hal_tex_desc)
            /\ Unwrap(hal_tex_desc).size = Unwrap(wgpu_desc).size
            /\ Unwrap(hal_tex_desc).format = Unwrap(wgpu_desc).format
            /\ Unwrap(hal_tex_desc).mip_level_count = 1
            /\ Unwrap(hal_tex_desc).sample_count = 1
            /\ calls[Len(calls)] = [op |-> "texture_from_raw", arg |-> 0, desc |-> hal_tex_desc]
               \/ guard = "ran")

\* A render target of 32 by 16 pixels was imported.
C27_Witness ==
    /\ result = "Ok" /\ usage = "RenderTarget"
    /\ IsSome(wgpu_desc)
    /\ Unwrap(wgpu_desc).size = [width |-> 32, height |-> 16, depth_or_array_layers |-> 1]
    /\ Unwrap(wgpu_desc).format = "Bgra8UnormSrgb"
    /\ Unwrap(wgpu_desc).usage = {"RENDER_ATTACHMENT", "COPY_DST"}

\* ---------------------------------------------------------------- C28
\* C28: the ownership transfers submitted for an image alternate, starting
\* with an Acquire: a submission that carries a Release barrier for an image
\* follows a submitted Acquire of it, and one that carries an Acquire barrier
\* follows no submission for it or a submitted Release.
C28_TransfersAlternate ==
    [][\A d \in Directions :
          (submitted'[d] # submitted[d] /\ IsSome(submitted'[d])) =>
             \A id \in Unwrap(submitted'[d]) :
                IF d = "Release" THEN id \in acquired ELSE id \notin acquired]_vars

\* ---------------------------------------------------------------- C29
\* C29: the entry of a registered buffer whose image is alive leaves the
\* UnImported state only by being handed to import_texture: it is never
\* removed from the table while still UnImported.
C29_UnImportedEntryIsImported ==
    [][\A id \in Ids :
          (table[id].st = "UnImported" /\ id \in images /\ id \in images'
             /\ table'[id].st # "UnImported") =>
                importCount'[id] = importCount[id] + 1]_vars

\* ---------------------------------------------------------------- C30
\* C30: the on_drop callback given to set has run exactly once as soon as
\* neither the table entry nor an imported texture holds it any longer (entry
\* removed before the import, import failed, texture released after the
\* import) and has not run while one of them holds it; no step calls it a
\* second time; and when it runs for an imported texture it runs after the
\* plane memory has been freed and the native image destroyed.
C30_OnDropRunsExactlyOnce ==
    /\ [](\A id \in Ids :
            /\ on_drop[id] = "none" => dropRuns[id] = 0
            /\ on_drop[id] # "none" =>
                  dropRuns[id] = IF table[id].st = "Absent" THEN 1 ELSE 0)
    /\ [][\A id \in Ids :
            dropRuns'[id] # dropRuns[id] =>
               /\ dropRuns[id] = 0 /\ dropRuns'[id] = 1
               /\ table[id].st = "UnImported" => dropTrace' = <<"on_drop">>
               /\ table[id].st = "Imported" =>
                     dropTrace' = <<"free_memory", "destroy_image", "on_drop">>]_vars

\* A texture made by import_texture has been released after its image was
\* dropped, and its callback has run.
C30_Witness ==
    \E id \in Ids :
       /\ importCount[id] = 1 /\ table[id].st = "Absent" /\ id \notin images
       /\ dropRuns[id] = 1
       /\ dropTrace = <<"free_memory", "destroy_image", "on_drop">>

\* ---------------------------------------------------------------- C31
\* The requirement queries and memory imports of the call, in call order.
PlaneCalls ==
    SelectSeq(calls, LAMBDA c : c.op \in {"get_image_memory_requirements2",
                                          "allocate_memory"})

\* C31: in disjoint mode (more than one plane) the planes are processed in
\* plane order: the k-th plane gets one requirements query scoped to its own
\* aspect, then one memory import, and its binding is tagged with the
\* memory-plane aspect of its index, which is one of 0..3; at most four planes
\* are processed, a descriptor with more than four planes is never imported
\* and ends with IncorrectNumberOfPlanes once its first four planes are in,
\* and no other descriptor gets that error.
C31_DisjointPlanesInOrder ==
    Len(fd) > 1 =>
       /\ \A j \in DOMAIN PlaneCalls :
             /\ PlaneCalls[j].op = (IF j % 2 = 1 THEN "get_image_memory_requirements2"
                                    ELSE "allocate_memory")
             /\ PlaneCalls[j].arg = (j + 1) \div 2
       /\ Len(PlaneCalls) <= 2 * (MaxAspectIndex + 1)
       /\ \A k \in DOMAIN binds :
             /\ binds[k].plane = k
             /\ binds[k].aspect = Some(k - 1)
             /\ k - 1 \in 0 .. 3
             /\ PlaneCalls[2 * k].op = "allocate_memory"
       /\ Len(PlaneCalls) \in {2 * Len(binds), 2 * Len(binds) + 1, 2 * Len(binds) + 2}
       /\ Len(fd) > 4 => result # "Ok"
       /\ (Len(fd) > 4 /\ Len(binds) = 4 /\ pc = "returned") =>
             result = "IncorrectNumberOfPlanes"
       /\ result = "IncorrectNumberOfPlanes" => (Len(fd) > 4 /\ Len(binds) = 4)

\* A five-plane import that stopped at the fifth plane, and before it a
\* four-plane shape: four queries, four imports, four tagged bindings.
C31_Witness ==
    /\ pc = "returned" /\ result = "IncorrectNumberOfPlanes"
    /\ Len(fd) = 5 /\ Len(binds) = 4 /\ Len(PlaneCalls) = 8
    /\ binds[4].aspect = Some(3)

\* ---------------------------------------------------------------- C32
\* C32: a successful import leaves no plane of its descriptor un-imported:
\* the combined path (one query, one import, one untagged binding) is taken
\* only for a one-plane descriptor, so the plane memories a successful
\* import_texture call holds are as many as the descriptor has planes.
C32_SuccessImportsEveryPlane ==
    [][\A id \in Ids :
          (table[id].st = "UnImported" /\ table'[id].st = "Imported") =>
             \A fault \in DriverFaults :
                LET r == import_texture(Unwrap(table[id].buf), device, fault)
                IN  r.res = "Ok" => r.mems = Unwrap(table[id].buf).nplanes]_vars

\* ---------------------------------------------------------------- C33
\* The image creation, memory imports, bind and texture calls of the import.
ImportCalls ==
    SelectSeq(calls, LAMBDA c : c.op \in {"create_image", "allocate_memory",
                                          "bind_image_memory2", "texture_from_raw"})

\* The number of plane memories a descriptor of n planes is imported as.
PlanesToImport(n) == IF n > 1 THEN n ELSE 1

\* C33: the bind call is issued at most once, only after the image was created
\* and every plane memory was imported in plane order, and it carries one
\* binding per imported memory; the release guard is registered and the
\* texture made only after it; a successful import made exactly the calls
\* create_image, allocate_memory for planes 1..n, one bind of n, texture_from_raw.
C33_ImportStepOrder ==
    /\ Cardinality(CallsOf("bind_image_memory2")) <= 1
    /\ \A i \in CallsOf("bind_image_memory2") :
          /\ calls[i].arg = PlanesToImport(Len(fd))
          /\ calls[i].arg = Len(binds)
          /\ Cardinality(CallsOf("allocate_memory")) = Len(binds)
          /\ \A j \in CallsOf("allocate_memory") \cup CallsOf("create_image") : j < i
          /\ \A j \in CallsOf("texture_from_raw") : i < j
    /\ \A i \in CallsOf("create_image"), j \in CallsOf("allocate_memory") : i < j
    /\ \A i, j \in CallsOf("allocate_memory") : i < j => calls[i].arg < calls[j].arg
    /\ guard # "none" => CallsOf("bind_image_memory2") # {}
    /\ (pc = "returned" /\ result = "Ok") =>
          /\ Len(ImportCalls) = PlanesToImport(Len(fd)) + 3
          /\ ImportCalls[1].op = "create_image"
          /\ \A k \in 1 .. PlanesToImport(Len(fd)) :
                ImportCalls[k + 1].op = "allocate_memory" /\ ImportCalls[k + 1].arg = k
          /\ ImportCalls[Len(ImportCalls) - 1].op = "bind_image_memory2"
          /\ ImportCalls[Len(ImportCalls)].op = "texture_from_raw"

\* A three-plane import has succeeded: six calls in that order.
C33_Witness ==
    /\ pc = "returned" /\ result = "Ok" /\ Len(fd) = 3 /\ guard = "registered"
    /\ Len(ImportCalls) = 6 /\ ImportCalls[5].arg = 3

\* ---------------------------------------------------------------- C34
\* The property flags import_texture means to exclude.
ExcludedFlags == {"PROTECTED", "LAZILY_ALLOCATED", "DEVICE_COHERENT_AMD", "RDMA_CAPABLE_NV"}

\* Every memory type of the device carries an excluded flag.
AllTypesExcluded ==
    \A i \in DOMAIN device.memTypes : device.memTypes[i] \cap ExcludedFlags # {}

\* C34: an import_texture call that got as far as allocating plane memory used
\* a memory type index whose flags include none of PROTECTED,
\* LAZILY_ALLOCATED, DEVICE_COHERENT_AMD and RDMA_CAPABLE_NV, and a call
\* returns NoValidMemoryTypes exactly when every memory type carries one.
C34_NoExcludedMemoryType ==
    [][\A id \in Ids :
          importCount'[id] = importCount[id] + 1 =>
             LET idx == memory_type_idx(device.memTypes)
             IN  /\ outcome'[id] \in {"Ok", "VulkanMemoryAllocFailed",
                                      "VulkanImageMemoryBindFailed"} =>
                       /\ IsSome(idx)
                       /\ device.memTypes[Unwrap(idx) + 1] \cap ExcludedFlags = {}
                       /\ ~AllTypesExcluded
                 /\ outcome'[id] = "NoValidMemoryTypes" => AllTypesExcluded]_vars

\* ---------------------------------------------------------------- C35
\* C35: once an import has returned an error, every plane file descriptor of
\* the descriptor is closed or belongs to the driver: none is an open raw
\* descriptor that nobody owns.
C35_ErrorLeavesNoFdOpen ==
    (pc = "returned" /\ result # "Ok") =>
        \A p \in DOMAIN fd : fd[p] \in {"closed", "driver"}

\* ---------------------------------------------------------------- C36
\* C36: an Imported entry never becomes UnImported again; it stays Imported,
\* with the texture it has, through every step except an iteration of the
\* import step that finds no GpuImage under its id, which removes it, and
\* such an iteration always removes it; when the import step ends, the
\* GpuImage of every Imported entry carries that entry's texture.
C36_EntryLifecycle ==
    /\ [][\A id \in Ids :
            /\ table[id].st = "Imported" =>
                  /\ table'[id].st \in {"Imported", "Absent"}
                  /\ table'[id].st = "Imported" => on_drop'[id] = on_drop[id]
                  /\ table'[id].st = "Absent" =>
                        /\ IsSome(loop) /\ id \in Unwrap(loop).todo
                        /\ id \notin Unwrap(loop').todo
                        /\ gpu_images[id] = "none"
                  /\ (IsSome(loop) /\ IsSome(loop') /\ id \in Unwrap(loop).todo
                       /\ id \notin Unwrap(loop').todo /\ gpu_images[id] = "none") =>
                        table'[id].st = "Absent"
            /\ (table[id].st = "UnImported" /\ table'[id].st = "Imported") =>
                  gpu_images'[id] = "imported"]_vars
    /\ [][(IsSome(loop) /\ ~IsSome(loop')) =>
            \A id \in Ids : table'[id].st = "Imported" => gpu_images'[id] = "imported"]_vars

\* An import step has ended with an entry imported in it and an entry that
\* was registered as Imported, both with the texture in their GpuImage.
C36_Witness ==
    /\ stage = "acquire" /\ mb.pc = "idle" /\ frameLog = <<"insert">>
    /\ \E a, b \in Ids :
          /\ a # b
          /\ table[a].st = "Imported" /\ table[b].st = "Imported"
          /\ on_drop[a] = "texture" /\ on_drop[b] = "none"
          /\ gpu_images[a] = "imported" /\ gpu_images[b] = "imported"

\* ---------------------------------------------------------------- C37
\* prepare_asset returns: the step from the returned import call to idle.
PrepareAssetReturns == variant = "events" /\ pc = "returned" /\ pc' = "idle"

\* C37: each prepare_asset call triggers exactly one notification,
\* ExternalBufferImported exactly when the import succeeded and
\* ExternalBufferImportFailed exactly when it failed; the GPU asset it returns
\* is Imported exactly when the imported notification was triggered and
\* Invalid otherwise; nothing else triggers a notification.
C37_OneNotificationPerPrepare ==
    /\ [][PrepareAssetReturns =>
            /\ Len(notes') = Len(notes) + 1
            /\ SubSeq(notes', 1, Len(notes)) = notes
            /\ (notes'[Len(notes')] = "ExternalBufferImported") <=> (result = "Ok")
            /\ (notes'[Len(notes')] = "ExternalBufferImportFailed") <=> (result # "Ok")
            /\ (gpuAsset' = "Imported") <=> (notes'[Len(notes')] = "ExternalBufferImported")
            /\ (gpuAsset' = "Invalid") <=> (notes'[Len(notes')] # "ExternalBufferImported")]_vars
    /\ [][(notes' # notes /\ ~PrepareAssetReturns) => notes' = << >>]_vars

\* A prepare_asset call has returned the Imported asset after triggering
\* ExternalBufferImported, and nothing else.
C37_Witness ==
    /\ variant = "events" /\ pc = "idle" /\ importCalls = 1
    /\ gpuAsset = "Imported" /\ notes = << "ExternalBufferImported" >>

\* ---------------------------------------------------------------- C38
\* The handles in the cache of sync_render_targets.
Cached(c) == {c[i] : i \in DOMAIN c}

\* C38: a pending view leaves the pending set only in sync_render_targets and
\* only when an entity carrying its handle exists, and every such view is
\* taken; when sync_render_targets ends, each view it took is in
\* ManualTextureViews under its handle, its entity's RenderTarget is
\* TextureView(handle), it is no longer pending and the cache is empty; no
\* view is delivered more than once.
C38_PendingTargetDeliveredOnce ==
    /\ [](\A h \in ViewHandles : delivered[h] <= 1)
    /\ [](~syncing => cache = << >>)
    /\ [][\A h \in ViewHandles :
            /\ (h \in pending /\ h \notin pending') =>
                  /\ entities[h] = "spawned"
                  /\ ~syncing /\ syncing' /\ h \in Cached(cache')
            /\ (~syncing /\ syncing' /\ h \in pending /\ entities[h] = "spawned") =>
                  h \notin pending'
            /\ (syncing /\ ~syncing' /\ h \in Cached(cache)) =>
                  /\ h \in texture_views' /\ render_target'[h] = "TextureView"
                  /\ delivered'[h] = delivered[h] + 1
                  /\ h \notin pending' /\ cache' = << >>
            /\ (h \in texture_views' /\ h \notin texture_views) =>
                  (syncing /\ h \in Cached(cache))]_vars

\* sync_render_targets has delivered the view of handle 1, whose entity
\* exists, and left the view of handle 0, which has no entity, pending.
C38_Witness ==
    /\ variant = "render_target" /\ ~syncing /\ cache = << >>
    /\ pending = {0} /\ entities[0] = "none" /\ render_target[0] = "None"
    /\ texture_views = {1} /\ entities[1] = "spawned"
    /\ render_target[1] = "TextureView" /\ delivered[1] = 1 /\ delivered[0] = 0

\* ---------------------------------------------------------------- C39
\* The u64 held in four limbs is the number n.
IsNumber(limbs, n) ==
    /\ n >= 0
    /\ limbs[3] = 0 /\ limbs[4] = 0
    /\ limbs[1] + Limb * limbs[2] = n

\* C39: the plane layout passed to create_image has one entry per plane of
\* the descriptor, in plane order, whose offset and row pitch are the plane's
\* offset and stride as numbers.
C39_PlaneLayoutsKeepValues ==
    \A k \in DOMAIN calls :
        calls[k].op = "create_image" =>
           /\ Len(calls[k].layouts) = Len(fd)
           /\ \A p \in DOMAIN calls[k].layouts :
                 /\ IsNumber(calls[k].layouts[p].offset, (p - 1) * PlaneSize)
                 /\ \E st \in Strides : IsNumber(calls[k].layouts[p].row_pitch, st)

====
